---- MODULE Spec2Model ----
(***************************************************************************)
(* Verification model of the doktoren/ncpc2025 algorithm catalogue.        *)
(*                                                                         *)
(* Part 1: Fenwick tree (src/cpp/suffix_array.cpp lines 155-510, the       *)
(*         earlier variant src/unnamed/part_013, and the Java port         *)
(*         src/java/fenwick_tree.java, which follows the C++ line by line).*)
(* Part 2: Priority queue (src/unnamed/part_016, src/cpp/priority_queue.cpp *)
(*         and the Java heap src/java/priority_queue.java,                 *)
(*         src/unnamed/part_028).                                          *)
(*                                                                         *)
(* Every operation that can throw returns a record [err, val]: err is      *)
(* "none" for a normal return and the exception otherwise.                 *)
(***************************************************************************)
EXTENDS Integers, Sequences, FiniteSets, TLC

VARIABLES
    made,       \* the class the program constructed an object of
    size,       \* FenwickTree::size
    tree,       \* FenwickTree::tree, cells 0..size (cell 0 is never used)
    twin,       \* a second tree, built by one update per element
    arr,        \* the naive parallel array the tests compare against
    nUpdates,   \* number of update calls made so far
    nonneg,     \* TRUE while every value/delta applied so far is >= 0
    call,       \* the last call made: [op, a, b]
    ret,        \* what the last call returned: [err, val]
    pq,             \* PriorityQueue::pq, the entries of the std::priority_queue
    key_versions,   \* PriorityQueue::key_versions, key -> current version
    next_version,   \* PriorityQueue::next_version
    size_count,     \* PriorityQueue::size_count
    live,           \* reference dictionary of the caller: key -> priority
    heap,           \* Java PriorityQueue<T>.heap, a list (position 1 is Java's index 0)
    parent,         \* UnionFind::parent of every node (Java: parent[])
    rank,           \* UnionFind::rank of every node (Java: rank[])
    tsize,          \* Test::size of every node (Java: size[])
    merge_calls,    \* how often the merge hook has run
    group,          \* reference partition of the caller: node -> the nodes joined with it
    st_n,           \* SegmentTree::n
    st_tree,        \* SegmentTree::tree, a list (position 1 is index 0)
    st_arr,         \* the array the caller built the tree from, with its point assignments
    st_stray,       \* an update outside 0..n-1 has returned normally
    graph,          \* the graph member(s) of the graph-algorithm object in use
    skiplist,       \* SkipList: max_level, level and the nodes (node 0 is the header)
    inserted,       \* how often each value was inserted, less the removals that returned true
    trie,           \* PrefixTree: the root node, keys and values (a child node or null)
    words           \* the strings added so far

fwVars == <<size, tree, twin, arr, nUpdates, nonneg>>
pqVars == <<pq, key_versions, next_version, size_count, live>>
heapVars == <<heap>>
ufVars == <<parent, rank, tsize, merge_calls, group>>
stVars == <<st_n, st_tree, st_arr, st_stray>>
gVars == <<graph>>
slVars == <<skiplist, inserted>>
ptVars == <<trie, words>>
vars == <<made, fwVars, pqVars, heapVars, ufVars, stVars, gVars, slVars, ptVars, call, ret>>

\* what each component leaves alone
notFenwick == <<pqVars, heapVars, ufVars, stVars, gVars, slVars, ptVars>>
notPQ == <<fwVars, heapVars, ufVars, stVars, gVars, slVars, ptVars>>
notHeap == <<fwVars, pqVars, ufVars, stVars, gVars, slVars, ptVars>>
notUF == <<fwVars, pqVars, heapVars, stVars, gVars, slVars, ptVars>>
notST == <<fwVars, pqVars, heapVars, ufVars, gVars, slVars, ptVars>>
notGraph == <<fwVars, pqVars, heapVars, ufVars, stVars, slVars, ptVars>>
notSkip == <<fwVars, pqVars, heapVars, ufVars, stVars, gVars, ptVars>>
notTrie == <<fwVars, pqVars, heapVars, ufVars, stVars, gVars, slVars>>

----------------------------------------------------------------------------
(* Bounds of the model *)

MaxSize == 5        \* largest tree size explored
MaxUpdates == 2     \* update calls per behaviour of SpecFenwick
MaxArrLen == 4      \* longest array handed to from_array
MaxFurther == 1     \* update calls after from_array in SpecFromArray

Deltas == {-1, 1, 2}      \* deltas handed to update
ArrVals == {-1, 0, 2}     \* element values handed to from_array

Zero == 0

----------------------------------------------------------------------------
(* Results *)

Ok(v) == [err |-> "none", val |-> v]
OutOfRange == [err |-> "out_of_range", val |-> 0]
Call(op, a, b) == [op |-> op, a |-> a, b |-> b]

\* a map with no keys
EmptyMap == [k \in {} |-> 0]

\* a - b where either operand may have thrown: the exception propagates
SubR(x, y) ==
    IF x.err # "none" THEN x
    ELSE IF y.err # "none" THEN y
    ELSE Ok(x.val - y.val)

----------------------------------------------------------------------------
(* Fenwick tree *)

\* index & (-index): the lowest set bit of a positive integer
RECURSIVE LowBit(_)
LowBit(i) == IF i % 2 = 1 THEN 1 ELSE 2 * LowBit(i \div 2)

\* FenwickTree(int size, T zero): size + 1 cells, all zero
FenwickTree(n) == [i \in 0..n |-> Zero]

\* faulty variant of UpdateLoop: the loop stops one cell early (index < size)
RECURSIVE UpdateLoopStopsEarly(_, _, _, _)
UpdateLoopStopsEarly(t, n, index, delta) ==
    IF index < n
    THEN UpdateLoopStopsEarly([t EXCEPT ![index] = @ + delta], n, index + LowBit(index), delta)
    ELSE t

\* the while loop of update, index already 1-based
RECURSIVE UpdateLoop(_, _, _, _)
UpdateLoop(t, n, index, delta) ==
    IF index <= n
    THEN UpdateLoop([t EXCEPT ![index] = @ + delta], n, index + LowBit(index), delta)
    ELSE t

\* faulty variant of update: the upper bound check is off by one (index > size)
updateLooseBound(t, n, index, delta) ==
    IF index < 0 \/ index > n
    THEN [err |-> "out_of_range", tree |-> t]
    ELSE [err |-> "none", tree |-> UpdateLoop(t, n, index + 1, delta)]

\* void update(int index, T delta)
update(t, n, index, delta) ==
    IF index < 0 \/ index >= n
    THEN [err |-> "out_of_range", tree |-> t]
    ELSE [err |-> "none", tree |-> UpdateLoop(t, n, index + 1, delta)]

\* the while loop of query, index already 1-based
RECURSIVE QueryLoop(_, _, _)
QueryLoop(t, index, result) ==
    IF index > 0
    THEN QueryLoop(t, index - LowBit(index), result + t[index])
    ELSE result

\* T query(int index)
query(t, n, index) ==
    IF index < 0 \/ index >= n
    THEN OutOfRange
    ELSE Ok(QueryLoop(t, index + 1, Zero))

\* faulty variant of range_query: subtracts query(left) instead of query(left - 1)
range_queryDropsLeft(t, n, left, right) ==
    IF left > right \/ left < 0 \/ right >= n THEN Ok(Zero)
    ELSE IF left = 0 THEN query(t, n, right)
    ELSE SubR(query(t, n, right), query(t, n, left))

\* T range_query(int left, int right)   (suffix_array.cpp:228, fenwick_tree.java:97)
range_query(t, n, left, right) ==
    IF left > right \/ left < 0 \/ right >= n THEN Ok(Zero)
    ELSE IF left = 0 THEN query(t, n, right)
    ELSE SubR(query(t, n, right), query(t, n, left - 1))

\* T range_query(int left, int right)   (part_013:80, the earlier variant)
range_query_013(t, n, left, right) ==
    IF left > right THEN Ok(Zero)
    ELSE IF left = 0 THEN query(t, n, right)
    ELSE SubR(query(t, n, right), query(t, n, left - 1))

\* faulty variant of get_value: returns the prefix sum, the subtraction is forgotten
get_valueNoSubtract(t, n, index) ==
    IF index < 0 \/ index >= n THEN OutOfRange
    ELSE query(t, n, index)

\* T get_value(int index)   (suffix_array.cpp:236, fenwick_tree.java:109)
get_value(t, n, index) ==
    IF index < 0 \/ index >= n THEN OutOfRange
    ELSE IF index = 0 THEN query(t, n, 0)
    ELSE SubR(query(t, n, index), query(t, n, index - 1))

\* T get_value(int index)   (part_013:90, the earlier variant: no guard of its own)
get_value_013(t, n, index) ==
    IF index = 0 THEN query(t, n, 0)
    ELSE SubR(query(t, n, index), query(t, n, index - 1))

\* int bit = 1; while (bit <= size) bit <<= 1; bit >>= 1;
RECURSIVE HighBitLoop(_, _)
HighBitLoop(bit, n) == IF bit <= n THEN HighBitLoop(2 * bit, n) ELSE bit \div 2

\* faulty variant of Descend: moves right only while the prefix is strictly below the target
RECURSIVE DescendStrict(_, _, _, _, _, _)
DescendStrict(t, n, bit, idx, cur, prefix_before) ==
    IF bit > 0
    THEN LET nxt == idx + bit
             cand == cur + t[nxt]
         IN IF nxt <= n /\ cand < prefix_before
            THEN DescendStrict(t, n, bit \div 2, nxt, cand, prefix_before)
            ELSE DescendStrict(t, n, bit \div 2, idx, cur, prefix_before)
    ELSE idx

\* the descent loop of first_nonzero_index
RECURSIVE Descend(_, _, _, _, _, _)
Descend(t, n, bit, idx, cur, prefix_before) ==
    IF bit > 0
    THEN LET nxt == idx + bit
             cand == cur + t[nxt]
         IN IF nxt <= n /\ cand <= prefix_before
            THEN Descend(t, n, bit \div 2, nxt, cand, prefix_before)
            ELSE Descend(t, n, bit \div 2, idx, cur, prefix_before)
    ELSE idx

\* int first_nonzero_index(int start_index): -1 is "not found"
first_nonzero_index(t, n, start_index) ==
    LET start == IF start_index > 0 THEN start_index ELSE 0
    IN IF start >= n THEN -1
       ELSE LET prefix_before == IF start > 0 THEN query(t, n, start - 1).val ELSE Zero
                total == query(t, n, n - 1).val
            IN IF total = prefix_before THEN -1
               ELSE Descend(t, n, HighBitLoop(1, n), 0, Zero, prefix_before)

\* the first loop of from_array: prefix[i + 1] = prefix[i] + arr[i]
RECURSIVE PrefixLoop(_, _, _, _)
PrefixLoop(prefix, a, n, i) ==
    IF i < n
    THEN PrefixLoop([prefix EXCEPT ![i + 1] = prefix[i] + a[i]], a, n, i + 1)
    ELSE prefix

\* faulty variant of from_array: the range start is not moved back by one (prefix[range_start])
from_arrayShortRange(a, n) ==
    LET prefix == PrefixLoop([i \in 0..n |-> Zero], a, n, 0)
    IN [i \in 0..n |->
          IF i = 0 THEN Zero
          ELSE LET range_start == i - LowBit(i) + 1
               IN prefix[i] - prefix[range_start]]

\* static FenwickTree from_array(const std::vector<T>& arr, T zero)
from_array(a, n) ==
    LET prefix == PrefixLoop([i \in 0..n |-> Zero], a, n, 0)
    IN [i \in 0..n |->
          IF i = 0 THEN Zero
          ELSE LET range_start == i - LowBit(i) + 1
               IN prefix[i] - prefix[range_start - 1]]

\* Java: FenwickTree(T[] values, ...): update(i, values[i]) for each i
RECURSIVE UpdateEach(_, _, _, _)
UpdateEach(t, a, n, i) ==
    IF i < n THEN UpdateEach(update(t, n, i, a[i]).tree, a, n, i + 1) ELSE t

----------------------------------------------------------------------------
(* Ground truth: sums over the naive array *)

RECURSIVE NaiveSum(_, _, _)
NaiveSum(a, lo, hi) == IF lo > hi THEN 0 ELSE a[hi] + NaiveSum(a, lo, hi - 1)

Valid(i) == 0 <= i /\ i < size
Indices == -1 .. (size + 1)

\* Reads (query, range_query, get_value, first_nonzero_index) leave the tree
\* untouched, so a read made after another read returns what it would have
\* returned directly after the last write: reads are explored after writes only.
AfterWrite == call.op \in {"new", "update"}

----------------------------------------------------------------------------
(* The other components, freshly constructed and not used *)

\* PriorityQueue() : next_version(0), size_count(0) {}
PQNew ==
    /\ pq = {}
    /\ key_versions = EmptyMap
    /\ next_version = 0
    /\ size_count = 0
    /\ live = EmptyMap

\* PriorityQueue() { this.heap = new ArrayList<>(); }
HeapNew == heap = << >>

\* no UnionFind node in use
UFNone ==
    /\ parent = EmptyMap
    /\ rank = EmptyMap
    /\ tsize = EmptyMap
    /\ merge_calls = 0
    /\ group = EmptyMap

\* no SegmentTree in use
STNone ==
    /\ st_n = 0
    /\ st_tree = << >>
    /\ st_arr = << >>
    /\ st_stray = FALSE

\* no graph-algorithm object in use
GraphNone == graph = << >>

\* no SkipList in use
SkipNone ==
    /\ skiplist = << >>
    /\ inserted = << >>

\* no PrefixTree in use
TrieNone ==
    /\ trie = << >>
    /\ words = {}

\* no FenwickTree in use
FenwickNone ==
    /\ size = 0
    /\ tree = FenwickTree(0)
    /\ twin = FenwickTree(0)
    /\ arr = [i \in 0..(-1) |-> 0]
    /\ nUpdates = 0
    /\ nonneg = TRUE

----------------------------------------------------------------------------
(* SpecFenwick: a tree built by the constructor, then any calls *)

InitFenwick ==
    /\ made = "FenwickTree"
    /\ PQNew /\ HeapNew /\ UFNone /\ STNone /\ GraphNone /\ SkipNone /\ TrieNone
    /\ \E n \in 0..MaxSize :
        /\ size = n
        /\ tree = FenwickTree(n)
        /\ twin = FenwickTree(n)
        /\ arr = [i \in 0..(n - 1) |-> 0]
        /\ nUpdates = 0
        /\ nonneg = TRUE
        /\ call = Call("new", n, 0)
        /\ ret = Ok(0)

\* one call of update on the tree (and on its twin), mirrored in the naive array
UpdateStep(index, delta) ==
    /\ LET r == update(tree, size, index, delta)
       IN /\ tree' = r.tree
          /\ twin' = update(twin, size, index, delta).tree
          /\ arr' = IF r.err = "none" THEN [arr EXCEPT ![index] = @ + delta] ELSE arr
          /\ nonneg' = (nonneg /\ (r.err # "none" \/ delta >= 0))
          /\ ret' = [err |-> r.err, val |-> 0]
    /\ nUpdates' = nUpdates + 1
    /\ call' = Call("update", index, delta)
    /\ UNCHANGED <<made, size, notFenwick>>

Update(index, delta) ==
    /\ nUpdates < MaxUpdates
    /\ UpdateStep(index, delta)

Query(index) ==
    /\ AfterWrite
    /\ call' = Call("query", index, 0)
    /\ ret' = query(tree, size, index)
    /\ UNCHANGED <<made, fwVars, notFenwick>>

RangeQuery(left, right) ==
    /\ AfterWrite
    /\ call' = Call("range_query", left, right)
    /\ ret' = range_query(tree, size, left, right)
    /\ UNCHANGED <<made, fwVars, notFenwick>>

RangeQuery013(left, right) ==
    /\ AfterWrite
    /\ call' = Call("range_query_013", left, right)
    /\ ret' = range_query_013(tree, size, left, right)
    /\ UNCHANGED <<made, fwVars, notFenwick>>

GetValue(index) ==
    /\ AfterWrite
    /\ call' = Call("get_value", index, 0)
    /\ ret' = get_value(tree, size, index)
    /\ UNCHANGED <<made, fwVars, notFenwick>>

GetValue013(index) ==
    /\ AfterWrite
    /\ call' = Call("get_value_013", index, 0)
    /\ ret' = get_value_013(tree, size, index)
    /\ UNCHANGED <<made, fwVars, notFenwick>>

FirstNonzeroIndex(start_index) ==
    /\ AfterWrite
    /\ call' = Call("first_nonzero_index", start_index, 0)
    /\ ret' = Ok(first_nonzero_index(tree, size, start_index))
    /\ UNCHANGED <<made, fwVars, notFenwick>>

NextFenwick ==
    \/ \E index \in Indices, delta \in Deltas : Update(index, delta)
    \/ \E index \in Indices : Query(index)
    \/ \E left \in Indices, right \in Indices : RangeQuery(left, right)
    \/ \E left \in Indices, right \in Indices : RangeQuery013(left, right)
    \/ \E index \in Indices : GetValue(index)
    \/ \E index \in Indices : GetValue013(index)
    \/ \E start_index \in Indices : FirstNonzeroIndex(start_index)

SpecFenwick == InitFenwick /\ [][NextFenwick]_vars

----------------------------------------------------------------------------
(* SpecFromArray: a tree built by from_array beside a twin built by one    *)
(* update per element, then the same updates applied to both               *)

InitFromArray ==
    /\ made = "FenwickTree"
    /\ PQNew /\ HeapNew /\ UFNone /\ STNone /\ GraphNone /\ SkipNone /\ TrieNone
    /\ \E n \in 0..MaxArrLen :
        \E a \in [0..(n - 1) -> ArrVals] :
            /\ size = n
            /\ tree = from_array(a, n)
            /\ twin = UpdateEach(FenwickTree(n), a, n, 0)
            /\ arr = a
            /\ nUpdates = 0
            /\ nonneg = (\A i \in 0..(n - 1) : a[i] >= 0)
            /\ call = Call("from_array", n, 0)
            /\ ret = Ok(0)

UpdateBoth(index, delta) ==
    /\ nUpdates < MaxFurther
    /\ UpdateStep(index, delta)

NextFromArray == \E index \in Indices, delta \in Deltas : UpdateBoth(index, delta)

SpecFromArray == InitFromArray /\ [][NextFromArray]_vars

----------------------------------------------------------------------------
(* Claims about the Fenwick tree *)

\* C1: on a tree built by FenwickTree(size, zero), after any sequence of
\* successful update calls, query(i) for a valid i returns the sum of all
\* deltas applied at indices <= i (the prefix sum of the naive array).
C1_QueryIsPrefixSum ==
    (call.op = "query" /\ Valid(call.a)) => ret = Ok(NaiveSum(arr, 0, call.a))

\* C1 witness: two updates at different indices, both at or below a queried
\* index that is not the last one.
C1_Witness ==
    /\ call.op = "query" /\ Valid(call.a) /\ call.a < size - 1
    /\ \E i \in 0..call.a, j \in 0..call.a : i < j /\ arr[i] # 0 /\ arr[j] # 0
    /\ ret.err = "none" /\ ret.val # 0

\* What a tree answers to every read, as one value
Answers(t) ==
    [q |-> [i \in Indices |-> query(t, size, i)],
     r |-> [l \in Indices |-> [h \in Indices |-> range_query(t, size, l, h)]],
     g |-> [i \in Indices |-> get_value(t, size, i)],
     f |-> [s \in Indices |-> first_nonzero_index(t, size, s)]]

\* C2: the tree built by from_array(arr) and the tree built by one
\* update(i, arr[i]) per element answer every read identically, query(i) is
\* the prefix sum arr[0..i], and this stays so under further updates.
C2_FromArrayEquivalent ==
    /\ Answers(tree) = Answers(twin)
    /\ \A i \in 0..(size - 1) : query(tree, size, i) = Ok(NaiveSum(arr, 0, i))

\* C2 witness: from_array on four elements of mixed sign, then one more
\* successful update.
C2_Witness ==
    /\ size = 4 /\ nUpdates = 1 /\ call.op = "update" /\ ret.err = "none"
    /\ \E i \in 0..3, j \in 0..3 : arr[i] < 0 /\ arr[j] > 0
    /\ tree[4] # 0

\* the indices at or after start whose logical value is strictly positive
PositiveFrom(start) ==
    {i \in 0..(size - 1) : i >= start /\ get_value(tree, size, i).val > 0}

\* C3: provided every delta applied was non-negative, first_nonzero_index(s)
\* returns the smallest index >= max(s, 0) whose get_value is strictly
\* positive, and -1 exactly when there is none (also when s >= size).
C3_FirstNonzeroIndex ==
    (call.op = "first_nonzero_index" /\ nonneg) =>
        LET start == IF call.a > 0 THEN call.a ELSE 0
            cands == PositiveFrom(start)
        IN /\ ret.err = "none"
           /\ (cands = {}) <=> (ret.val = -1)
           /\ cands # {} =>
                /\ ret.val \in cands
                /\ \A j \in cands : ret.val <= j
                /\ \A j \in start..(ret.val - 1) : get_value(tree, size, j).val = 0

\* C3 witness: a size-5 tree with positive values at 1 and 4, searched from 2:
\* the descent skips a step that would leave the tree and answers 4.
C3_Witness ==
    /\ call.op = "first_nonzero_index" /\ nonneg
    /\ size = 5 /\ call.a = 2 /\ arr[1] > 0 /\ arr[4] > 0
    /\ ret = Ok(4)

InvalidRange(left, right) == left > right \/ ~Valid(left) \/ ~Valid(right)

\* C4: range_query(left, right) returns the zero element, and never signals
\* an error, whenever left > right or either bound lies outside [0, size).
C4_RangeQueryPermissive ==
    (call.op \in {"range_query", "range_query_013"} /\ InvalidRange(call.a, call.b))
        => ret = Ok(Zero)

C6_RangeQuerySum ==
    (call.op \in {"range_query", "range_query_013"} /\ ~InvalidRange(call.a, call.b)) =>
        /\ ret = Ok(query(tree, size, call.b).val
                    - (IF call.a > 0 THEN query(tree, size, call.a - 1).val ELSE 0))
        /\ ret = Ok(NaiveSum(arr, call.a, call.b))

\* C6 witness: a range strictly inside the tree holding two changed elements.
C6_Witness ==
    /\ call.op = "range_query" /\ 0 < call.a /\ call.a < call.b /\ call.b < size - 1
    /\ arr[call.a] # 0 /\ arr[call.b] # 0 /\ ret.err = "none"

\* C7: for a valid i, get_value(i) equals query(i) - query(i - 1) (query(0)
\* at i = 0) and the net sum of the deltas applied at i, negative ones included.
C7_GetValue ==
    (call.op \in {"get_value", "get_value_013"} /\ Valid(call.a)) =>
        /\ ret = Ok(query(tree, size, call.a).val
                    - (IF call.a > 0 THEN query(tree, size, call.a - 1).val ELSE 0))
        /\ ret = Ok(arr[call.a])

\* C7 witness: the value read is negative and an earlier element is non-zero.
C7_Witness ==
    /\ call.op = "get_value" /\ Valid(call.a) /\ call.a > 0
    /\ ret = Ok(-1) /\ \E j \in 0..(call.a - 1) : arr[j] > 0

----------------------------------------------------------------------------
(* Priority queue with keys (src/unnamed/part_016; src/cpp/priority_queue.cpp *)
(* is the same class without peek and contains)                             *)

MaxSets == 4        \* set calls per behaviour (caps next_version)
MaxHeap == 3        \* largest Java heap explored

Keys == {"x", "y", "z"}
Priorities == {1, 2}
Items == {1, 2, 3}

RuntimeError == [err |-> "runtime_error", val |-> << >>]

\* Entry(PriorityT p, const KeyT& k, size_t v)
Entry(p, k, v) == [priority |-> p, key |-> k, version |-> v]

\* key_versions.erase(it)
Erase(kv, key) == [k \in (DOMAIN kv) \ {key} |-> kv[k]]

\* key_versions[key] = version
Put(kv, key, v) == [k \in (DOMAIN kv) \cup {key} |-> IF k = key THEN v ELSE kv[k]]

\* pq.top(): std::greater<Entry> compares priorities only, so any entry that no
\* other entry is below may be on top
Tops(q) == {e \in q : \A f \in q : e.priority <= f.priority}

\* faulty variant of IsCurrent: the version is not compared
IsCurrentAnyVersion(kv, e) == e.key \in DOMAIN kv

\* faulty variant of IsCurrent: an entry whose key is gone is accepted (|| for &&)
IsCurrentOrGone(kv, e) == e.key \notin DOMAIN kv \/ kv[e.key] = e.version

\* it != key_versions.end() && it->second == top.version
IsCurrent(kv, e) == e.key \in DOMAIN kv /\ kv[e.key] = e.version

\* faulty variant of pq_set: size_count is not taken back for a key already present
pq_setAlwaysGrows(q, kv, nv, sc, key, priority) ==
    [pq |-> q \cup {Entry(priority, key, nv)},
     kv |-> Put(kv, key, nv),
     nv |-> nv + 1,
     sc |-> sc + 1,
     ret |-> Ok(<< >>)]

\* void set(const KeyT& key, const PriorityT& priority)
pq_set(q, kv, nv, sc, key, priority) ==
    LET sc1 == IF key \in DOMAIN kv THEN sc - 1 ELSE sc
        version == nv
    IN [pq |-> q \cup {Entry(priority, key, version)},
        kv |-> Put(kv, key, version),
        nv |-> nv + 1,
        sc |-> sc1 + 1,
        ret |-> Ok(<< >>)]

\* faulty variant of pq_remove: an absent key is not reported, the count still drops
pq_removeSilent(q, kv, nv, sc, key) ==
    [pq |-> q, kv |-> Erase(kv, key), nv |-> nv, sc |-> sc - 1, ret |-> Ok(<< >>)]

\* faulty variant of pq_remove: size_count is not lowered
pq_removeKeepsSize(q, kv, nv, sc, key) ==
    IF key \notin DOMAIN kv
    THEN [pq |-> q, kv |-> kv, nv |-> nv, sc |-> sc, ret |-> RuntimeError]
    ELSE [pq |-> q, kv |-> Erase(kv, key), nv |-> nv, sc |-> sc, ret |-> Ok(<< >>)]

\* void remove(const KeyT& key)
pq_remove(q, kv, nv, sc, key) ==
    IF key \notin DOMAIN kv
    THEN [pq |-> q, kv |-> kv, nv |-> nv, sc |-> sc, ret |-> RuntimeError]
    ELSE [pq |-> q, kv |-> Erase(kv, key), nv |-> nv, sc |-> sc - 1, ret |-> Ok(<< >>)]

\* std::pair<KeyT, PriorityT> pop(): every outcome the loop can end in
RECURSIVE pq_pop(_, _, _, _)
pq_pop(q, kv, nv, sc) ==
    IF q = {}
    THEN {[pq |-> q, kv |-> kv, nv |-> nv, sc |-> sc, ret |-> RuntimeError]}
    ELSE UNION {
           IF IsCurrent(kv, top)
           THEN {[pq |-> q \ {top}, kv |-> Erase(kv, top.key), nv |-> nv, sc |-> sc - 1,
                  ret |-> Ok(<<top.key, top.priority>>)]}
           ELSE pq_pop(q \ {top}, kv, nv, sc)
           : top \in Tops(q)}

\* std::pair<KeyT, PriorityT> peek(): every outcome the loop can end in
RECURSIVE pq_peek(_, _, _, _)
pq_peek(q, kv, nv, sc) ==
    IF q = {}
    THEN {[pq |-> q, kv |-> kv, nv |-> nv, sc |-> sc, ret |-> RuntimeError]}
    ELSE UNION {
           IF IsCurrent(kv, top)
           THEN {[pq |-> q, kv |-> kv, nv |-> nv, sc |-> sc,
                  ret |-> Ok(<<top.key, top.priority>>)]}
           ELSE pq_peek(q \ {top}, kv, nv, sc)
           : top \in Tops(q)}

\* bool contains(const KeyT& key) const
pq_contains(kv, key) == key \in DOMAIN kv

\* int size() const
pq_size(sc) == sc

\* bool empty() const
pq_empty(sc) == sc = 0

----------------------------------------------------------------------------
(* Java heap (src/java/priority_queue.java; src/unnamed/part_028 is the     *)
(* earlier version, whose peek throws)                                      *)

IllegalState == [err |-> "IllegalStateException", val |-> << >>]

\* a Java reference: null, or the object referred to
JNull == << >>
JRef(x) == <<x>>

\* heap.get(i) and Collections.swap(heap, i, j), with Java's indices from 0
At(h, i) == h[i + 1]
Swap(h, i, j) == [h EXCEPT ![i + 1] = h[j + 1], ![j + 1] = h[i + 1]]

\* private void siftUp(int idx)
RECURSIVE siftUp(_, _)
siftUp(h, idx) ==
    IF idx > 0
    THEN LET parentIdx == (idx - 1) \div 2
         IN IF At(h, idx) >= At(h, parentIdx) THEN h
            ELSE siftUp(Swap(h, idx, parentIdx), parentIdx)
    ELSE h

\* private void siftDown(int idx)
RECURSIVE siftDown(_, _)
siftDown(h, idx) ==
    LET left == 2 * idx + 1
        right == 2 * idx + 2
        s1 == IF left < Len(h) /\ At(h, left) < At(h, idx) THEN left ELSE idx
        smallest == IF right < Len(h) /\ At(h, right) < At(h, s1) THEN right ELSE s1
    IN IF smallest = idx THEN h
       ELSE siftDown(Swap(h, idx, smallest), smallest)

\* void push(T item)
heap_push(h, item) ==
    LET h1 == Append(h, item) IN siftUp(h1, Len(h1) - 1)

\* T pop()
heap_pop(h) ==
    IF h = << >> THEN [heap |-> h, ret |-> IllegalState]
    ELSE LET item == At(h, 0)
             last == At(h, Len(h) - 1)
             h1 == SubSeq(h, 1, Len(h) - 1)
         IN [heap |-> IF h1 # << >> THEN siftDown([h1 EXCEPT ![1] = last], 0) ELSE h1,
             ret |-> Ok(JRef(item))]

IllegalArgument == [err |-> "IllegalArgumentException", val |-> << >>]

\* heap.indexOf(item): the first Java index holding item, -1 if there is none
IndexOf(h, item) ==
    IF \E i \in 1..Len(h) : h[i] = item
    THEN (CHOOSE i \in 1..Len(h) : h[i] = item /\ \A j \in 1..(i - 1) : h[j] # item) - 1
    ELSE -1

\* void remove(T item)   (java/priority_queue.java:71, part_028:62)
heap_remove(h, item) ==
    LET idx == IndexOf(h, item)
    IN IF idx = -1 THEN [heap |-> h, ret |-> IllegalArgument]
       ELSE LET last == At(h, Len(h) - 1)
                h1 == SubSeq(h, 1, Len(h) - 1)
            IN IF idx < Len(h1)
               THEN LET oldItem == At(h1, idx)
                        h2 == [h1 EXCEPT ![idx + 1] = last]
                    IN [heap |-> IF last < oldItem THEN siftUp(h2, idx) ELSE siftDown(h2, idx),
                        ret |-> Ok(JNull)]
               ELSE [heap |-> h1, ret |-> Ok(JNull)]

\* T peek()   (java/priority_queue.java:47)
heap_peek(h) ==
    IF h = << >> THEN Ok(JNull) ELSE Ok(JRef(At(h, 0)))

\* T peek()   (part_028:42, the earlier version)
heap_peek_028(h) ==
    IF h = << >> THEN IllegalState ELSE Ok(JRef(At(h, 0)))

----------------------------------------------------------------------------
(* SpecPQ: the program constructs one of the two priority queues and calls it *)

InitPQ ==
    /\ made \in {"PriorityQueue<KeyT,PriorityT>", "PriorityQueue<T>"}
    /\ FenwickNone /\ UFNone /\ STNone /\ GraphNone /\ SkipNone /\ TrieNone
    /\ PQNew /\ HeapNew
    /\ call = Call("new", 0, 0)
    /\ ret = Ok(<< >>)

IsKeyed == made = "PriorityQueue<KeyT,PriorityT>"
IsHeap == made = "PriorityQueue<T>"

\* assigns the members of the keyed queue from an outcome record
Becomes(o) ==
    /\ pq' = o.pq
    /\ key_versions' = o.kv
    /\ next_version' = o.nv
    /\ size_count' = o.sc
    /\ ret' = o.ret

Set(key, priority) ==
    /\ IsKeyed
    /\ next_version < MaxSets
    /\ Becomes(pq_set(pq, key_versions, next_version, size_count, key, priority))
    /\ live' = Put(live, key, priority)
    /\ call' = Call("set", key, priority)
    /\ UNCHANGED <<made, notPQ>>

Remove(key) ==
    /\ IsKeyed
    /\ LET o == pq_remove(pq, key_versions, next_version, size_count, key)
       IN /\ Becomes(o)
          /\ live' = IF o.ret.err = "none" THEN Erase(live, key) ELSE live
    /\ call' = Call("remove", key, 0)
    /\ UNCHANGED <<made, notPQ>>

\* pop and peek record in call.b how many stale entries the call discarded
Pop ==
    /\ IsKeyed
    /\ \E o \in pq_pop(pq, key_versions, next_version, size_count) :
          /\ Becomes(o)
          /\ live' = IF o.ret.err = "none" THEN Erase(live, o.ret.val[1]) ELSE live
          /\ call' = Call("pop", 0, Cardinality(pq) - Cardinality(o.pq)
                                     - (IF o.ret.err = "none" THEN 1 ELSE 0))
    /\ UNCHANGED <<made, notPQ>>

Peek ==
    /\ IsKeyed
    /\ \E o \in pq_peek(pq, key_versions, next_version, size_count) :
          /\ Becomes(o)
          /\ call' = Call("peek", 0, Cardinality(pq) - Cardinality(o.pq))
    /\ UNCHANGED <<made, live, notPQ>>

HeapPush(item) ==
    /\ IsHeap
    /\ Len(heap) < MaxHeap
    /\ heap' = heap_push(heap, item)
    /\ call' = Call("heap_push", item, 0)
    /\ ret' = Ok(JNull)
    /\ UNCHANGED <<made, notHeap>>

HeapPop ==
    /\ IsHeap
    /\ LET o == heap_pop(heap)
       IN heap' = o.heap /\ ret' = o.ret
    /\ call' = Call("heap_pop", 0, 0)
    /\ UNCHANGED <<made, notHeap>>

HeapPeek ==
    /\ IsHeap
    /\ ret' = heap_peek(heap)
    /\ call' = Call("heap_peek", 0, 0)
    /\ UNCHANGED <<made, heap, notHeap>>

HeapPeek028 ==
    /\ IsHeap
    /\ ret' = heap_peek_028(heap)
    /\ call' = Call("heap_peek_028", 0, 0)
    /\ UNCHANGED <<made, heap, notHeap>>

HeapRemove(item) ==
    /\ IsHeap
    /\ LET o == heap_remove(heap, item)
       IN heap' = o.heap /\ ret' = o.ret
    /\ call' = Call("heap_remove", item, 0)
    /\ UNCHANGED <<made, notHeap>>

NextPQ ==
    \/ \E key \in Keys, priority \in Priorities : Set(key, priority)
    \/ \E key \in Keys : Remove(key)
    \/ Pop
    \/ Peek
    \/ \E item \in Items : HeapPush(item)
    \/ HeapPop
    \/ HeapPeek
    \/ HeapPeek028
    \/ \E item \in Items : HeapRemove(item)

SpecPQ == InitPQ /\ [][NextPQ]_vars

----------------------------------------------------------------------------
(* Claims about the priority queues *)

\* the entries of q that are current for key
CurrentEntries(q, kv, key) == {e \in q : e.key = key /\ IsCurrent(kv, e)}

\* C8: a pop() that returns hands back a pair (key, priority) whose key was
\* live, whose priority is the one most recently set for that key, and below
\* which no other live key lies; the key is no longer in the queue afterwards.
\* Stale entries are never returned.
C8_PopReturnsLiveMinimum ==
    [][(call'.op = "pop" /\ ret'.err = "none") =>
          LET key == ret'.val[1]
              priority == ret'.val[2]
          IN /\ key \in DOMAIN live
             /\ live[key] = priority
             /\ \A other \in DOMAIN live : priority <= live[other]
             /\ ~pq_contains(key_versions', key)
             /\ pq_size(size_count') = pq_size(size_count) - 1]_vars

\* C8 witness: pop returned a key at its lowered priority while discarding a
\* stale entry, and the key's older entry is still in the heap.
C8_Witness ==
    /\ call.op = "pop" /\ ret.err = "none" /\ call.b > 0
    /\ \E e \in pq : e.key = ret.val[1] /\ e.priority > ret.val[2]
    /\ DOMAIN live # {}

\* C9: set(key, priority) is an upsert: afterwards the key is live with exactly
\* one current entry, of the new priority; size() grows by 1 if the key was
\* absent and is unchanged if it was live.
C9_SetIsUpsert ==
    [][call'.op = "set" =>
          LET key == call'.a
              priority == call'.b
          IN /\ ret'.err = "none"
             /\ pq_contains(key_versions', key)
             /\ CurrentEntries(pq', key_versions', key)
                  = {Entry(priority, key, key_versions'[key])}
             /\ pq_size(size_count') =
                  IF pq_contains(key_versions, key)
                  THEN pq_size(size_count) ELSE pq_size(size_count) + 1]_vars

\* C9 witness: the priority of a live key was replaced while another key is live.
C9_Witness ==
    /\ call.op = "set" /\ pq_size(size_count) = 2
    /\ \E e \in pq : e.key = call.a /\ ~IsCurrent(key_versions, e) /\ e.priority # call.b

\* a pop or peek made while the queue holds no live element
OnEmpty ==
    \/ call'.op \in {"pop", "peek"} /\ DOMAIN live = {}
    \/ call'.op \in {"heap_pop", "heap_peek", "heap_peek_028"} /\ heap = << >>

ContainedKeys(kv) == {k \in Keys : pq_contains(kv, k)}

\* the items held by a Java heap
HeapItems(h) == {h[i] : i \in 1..Len(h)}

\* C11: remove(key) on a key that is not live (never set, already removed or
\* already popped) throws and leaves size() and the set of live keys
\* unchanged; the Java heap's remove(item) does the same for an absent item.
C11_RemoveAbsentThrows ==
    [][/\ (call'.op = "remove" /\ call'.a \notin DOMAIN live) =>
            /\ ret' = RuntimeError
            /\ pq_size(size_count') = pq_size(size_count)
            /\ ContainedKeys(key_versions') = ContainedKeys(key_versions)
       /\ (call'.op = "heap_remove" /\ call'.a \notin HeapItems(heap)) =>
            /\ ret' = IllegalArgument
            /\ heap' = heap]_vars

\* C11 witness: remove threw for a key that had been set and is gone again,
\* while another key is live.
C11_Witness ==
    /\ call.op = "remove" /\ ret = RuntimeError
    /\ \E e \in pq : e.key = call.a
    /\ pq_size(size_count) > 0

----------------------------------------------------------------------------
(* Union-Find (src/unnamed/part_010 lines 14-66, the same class in          *)
(* src/unnamed/part_009 lines 287-335, and src/java/union_find.java)        *)

NumNodes == 4       \* nodes created by the program

Nodes == 0 .. (NumNodes - 1)

\* UnionFind* find(): the root, and the parents after path compression
RECURSIVE uf_find(_, _)
uf_find(par, x) ==
    IF par[x] = x THEN [parent |-> par, ret |-> x]
    ELSE LET r == uf_find(par, par[x])
         IN [parent |-> [r.parent EXCEPT ![x] = r.ret], ret |-> r.ret]

\* void Test::merge(UnionFind* other): this->size += other_test->size
merge(sz, this, other) == [sz EXCEPT ![this] = sz[this] + sz[other]]

\* faulty variant of uf_union_with: the caller itself, not its root, is re-parented
uf_union_withLinksCaller(par, rk, sz, this, other) ==
    LET fx == uf_find(par, this)
        fy == uf_find(fx.parent, other)
        x == fx.ret
        y == fy.ret
        p == fy.parent
    IN IF x = y THEN [parent |-> p, rank |-> rk, size |-> sz, hooks |-> 0, ret |-> x]
       ELSE IF rk[x] < rk[y]
       THEN [parent |-> [p EXCEPT ![this] = y], rank |-> rk, size |-> merge(sz, y, x),
             hooks |-> 1, ret |-> y]
       ELSE IF rk[x] > rk[y]
       THEN [parent |-> [p EXCEPT ![y] = x], rank |-> rk, size |-> merge(sz, x, y),
             hooks |-> 1, ret |-> x]
       ELSE [parent |-> [p EXCEPT ![this] = y], rank |-> [rk EXCEPT ![y] = rk[y] + 1],
             size |-> merge(sz, y, x), hooks |-> 1, ret |-> y]

\* faulty variant of uf_union_with: no early return when both roots are the same
uf_union_withNoSameCheck(par, rk, sz, this, other) ==
    LET fx == uf_find(par, this)
        fy == uf_find(fx.parent, other)
        x == fx.ret
        y == fy.ret
        p == fy.parent
    IN IF rk[x] < rk[y]
       THEN [parent |-> [p EXCEPT ![x] = y], rank |-> rk, size |-> merge(sz, y, x),
             hooks |-> 1, ret |-> y]
       ELSE IF rk[x] > rk[y]
       THEN [parent |-> [p EXCEPT ![y] = x], rank |-> rk, size |-> merge(sz, x, y),
             hooks |-> 1, ret |-> x]
       ELSE [parent |-> [p EXCEPT ![x] = y], rank |-> [rk EXCEPT ![y] = rk[y] + 1],
             size |-> merge(sz, y, x), hooks |-> 1, ret |-> y]

\* faulty variant of uf_union_with: equal ranks are joined without raising the root's rank
uf_union_withNoRankBump(par, rk, sz, this, other) ==
    LET fx == uf_find(par, this)
        fy == uf_find(fx.parent, other)
        x == fx.ret
        y == fy.ret
        p == fy.parent
    IN IF x = y THEN [parent |-> p, rank |-> rk, size |-> sz, hooks |-> 0, ret |-> x]
       ELSE IF rk[x] > rk[y]
       THEN [parent |-> [p EXCEPT ![y] = x], rank |-> rk, size |-> merge(sz, x, y),
             hooks |-> 1, ret |-> x]
       ELSE [parent |-> [p EXCEPT ![x] = y], rank |-> rk, size |-> merge(sz, y, x),
             hooks |-> 1, ret |-> y]

\* UnionFind* union_with(UnionFind* other); hooks counts the calls of merge
uf_union_with(par, rk, sz, this, other) ==
    LET fx == uf_find(par, this)
        fy == uf_find(fx.parent, other)
        x == fx.ret
        y == fy.ret
        p == fy.parent
    IN IF x = y THEN [parent |-> p, rank |-> rk, size |-> sz, hooks |-> 0, ret |-> x]
       ELSE IF rk[x] < rk[y]
       THEN [parent |-> [p EXCEPT ![x] = y], rank |-> rk, size |-> merge(sz, y, x),
             hooks |-> 1, ret |-> y]
       ELSE IF rk[x] > rk[y]
       THEN [parent |-> [p EXCEPT ![y] = x], rank |-> rk, size |-> merge(sz, x, y),
             hooks |-> 1, ret |-> x]
       ELSE [parent |-> [p EXCEPT ![x] = y], rank |-> [rk EXCEPT ![y] = rk[y] + 1],
             size |-> merge(sz, y, x), hooks |-> 1, ret |-> y]

\* Java: int union(int x, int y); the sizes are added inline, no hook is called
uf_union_java(par, rk, sz, x0, y0) ==
    LET fx == uf_find(par, x0)
        fy == uf_find(fx.parent, y0)
        rootX == fx.ret
        rootY == fy.ret
        p == fy.parent
    IN IF rootX = rootY THEN [parent |-> p, rank |-> rk, size |-> sz, hooks |-> 0, ret |-> rootX]
       ELSE IF rk[rootX] < rk[rootY]
       THEN [parent |-> [p EXCEPT ![rootX] = rootY], rank |-> rk,
             size |-> merge(sz, rootY, rootX), hooks |-> 0, ret |-> rootY]
       ELSE IF rk[rootX] > rk[rootY]
       THEN [parent |-> [p EXCEPT ![rootY] = rootX], rank |-> rk,
             size |-> merge(sz, rootX, rootY), hooks |-> 0, ret |-> rootX]
       ELSE [parent |-> [p EXCEPT ![rootY] = rootX],
             rank |-> [rk EXCEPT ![rootX] = rk[rootX] + 1],
             size |-> merge(sz, rootX, rootY), hooks |-> 0, ret |-> rootX]

\* Java: boolean connected(int x, int y); in C++ a->find() == b->find()
connected(par, a, b) ==
    LET fa == uf_find(par, a)
        fb == uf_find(fa.parent, b)
    IN fa.ret = fb.ret

\* Java: int getSize(int x); in C++ static_cast<Test*>(x->find())->size
getSize(par, sz, x) == sz[uf_find(par, x).ret]

\* the reference partition after a and b were joined
Joined(g, a, b) ==
    LET both == g[a] \cup g[b]
    IN [n \in DOMAIN g |-> IF n \in both THEN both ELSE g[n]]

InitUF ==
    /\ made \in {"UnionFind", "union_find.UnionFind"}
    /\ FenwickNone /\ PQNew /\ HeapNew /\ STNone /\ GraphNone /\ SkipNone /\ TrieNone
    /\ parent = [n \in Nodes |-> n]
    /\ rank = [n \in Nodes |-> 0]
    /\ tsize = [n \in Nodes |-> 1]
    /\ merge_calls = 0
    /\ group = [n \in Nodes |-> {n}]
    /\ call = Call("new", 0, 0)
    /\ ret = Ok(0)

Find(x) ==
    /\ LET r == uf_find(parent, x)
       IN parent' = r.parent /\ ret' = Ok(r.ret)
    /\ call' = Call("find", x, 0)
    /\ UNCHANGED <<made, rank, tsize, merge_calls, group, notUF>>

\* assigns the nodes' members from the outcome of a union
Unites(o, a, b) ==
    /\ parent' = o.parent
    /\ rank' = o.rank
    /\ tsize' = o.size
    /\ merge_calls' = merge_calls + o.hooks
    /\ ret' = Ok(o.ret)
    /\ group' = Joined(group, a, b)

UnionWith(this, other) ==
    /\ made = "UnionFind"
    /\ Unites(uf_union_with(parent, rank, tsize, this, other), this, other)
    /\ call' = Call("union_with", this, other)
    /\ UNCHANGED <<made, notUF>>

UnionJava(x, y) ==
    /\ made = "union_find.UnionFind"
    /\ Unites(uf_union_java(parent, rank, tsize, x, y), x, y)
    /\ call' = Call("union", x, y)
    /\ UNCHANGED <<made, notUF>>

NextUF ==
    \/ \E x \in Nodes : Find(x)
    \/ \E this \in Nodes, other \in Nodes : UnionWith(this, other)
    \/ \E x \in Nodes, y \in Nodes : UnionJava(x, y)

SpecUF == InitUF /\ [][NextUF]_vars

----------------------------------------------------------------------------
(* Claims about Union-Find *)

\* C12: find(a) == find(b) exactly when a and b are related by the
\* reflexive-symmetric-transitive closure of the pairs passed to union_with;
\* the path compression done by find changes nothing about that.
C12_FindIsClosure ==
    \A a \in DOMAIN parent, b \in DOMAIN parent :
        connected(parent, a, b) <=> (group[a] = group[b])

\* C12 witness: find has just returned a root of rank 2 with every node of
\* its set attached directly to it, the state path compression leaves.
C12_Witness ==
    /\ call.op = "find" /\ rank[ret.val] = 2 /\ parent[call.a] = ret.val
    /\ \A n \in group[call.a] : parent[n] = ret.val

\* C13: with the size-adding hook, the size stored at find(x) is the number of
\* elements of x's set after any unions, same-set unions included; the hook
\* runs once per union_with that joins two distinct sets and never otherwise.
C13_SizeAtRoot ==
    /\ [](\A x \in DOMAIN parent : getSize(parent, tsize, x) = Cardinality(group[x]))
    /\ [][call'.op = "union_with" =>
            merge_calls' - merge_calls =
                (IF group[call'.a] = group[call'.b] THEN 0 ELSE 1)]_vars

\* C13 witness: union_with of two nodes of one two-element set returned the
\* caller (joining two single nodes returns the argument), and the size at
\* the root is still 2 after the single hook call that built the set.
C13_Witness ==
    /\ call.op = "union_with" /\ call.a # call.b
    /\ ret.val = call.a
    /\ group[call.a] = {call.a, call.b}
    /\ merge_calls = 1
    /\ getSize(parent, tsize, call.b) = 2

----------------------------------------------------------------------------
(* Segment tree (src/cpp/segment_tree.cpp, src/java/segment_tree.java and   *)
(* its earlier long[] version src/unnamed/part_022)                         *)

MaxElems == 3       \* length of the array the tree is built from

IsJavaST == made = "segment_tree.SegmentTree"
IsStringST == made = "SegmentTree<std::string>"

\* std::string values are lists of characters; + on them is concatenation
Plus(a, b) == IF IsStringST THEN a \o b ELSE a + b
st_zero == IF IsStringST THEN << >> ELSE 0

\* elements of the constructor's array, and values passed to update
ElemVals == IF IsStringST THEN {<<"a">>, <<"b">>} ELSE {-1, 2}
UpdateVals == IF IsStringST THEN {<<"X">>, <<"a">>} ELSE {10, 2}

\* int division by 2, rounding toward zero
Half(x) == IF x >= 0 THEN x \div 2 ELSE -((-x) \div 2)

\* the C++ tree has its root at index 1, the Java tree at index 0
RootNode == IF IsJavaST THEN 0 ELSE 1
LeftChild(node) == IF IsJavaST THEN 2 * node + 1 ELSE 2 * node
RightChild(node) == IF IsJavaST THEN 2 * node + 2 ELSE 2 * node + 1

TreeAt(t, node) == t[node + 1]
TreeSet(t, node, v) == [t EXCEPT ![node + 1] = v]

\* void build(const std::vector<T>& arr, int node, int start, int end)
RECURSIVE build(_, _, _, _, _)
build(t, a, node, start, end) ==
    IF start = end THEN TreeSet(t, node, a[start + 1])
    ELSE LET mid == Half(start + end)
             t1 == build(t, a, LeftChild(node), start, mid)
             t2 == build(t1, a, RightChild(node), mid + 1, end)
         IN TreeSet(t2, node, Plus(TreeAt(t2, LeftChild(node)), TreeAt(t2, RightChild(node))))

\* SegmentTree(const std::vector<T>& arr, T zero)
SegmentTree(a) ==
    LET n == Len(a)
        t == [i \in 1 .. (4 * n) |-> st_zero]
    IN IF n > 0 THEN build(t, a, RootNode, 0, n - 1) ELSE t

ArrayIndexOutOfBounds == [err |-> "ArrayIndexOutOfBoundsException", val |-> << >>]
StackOverflow == [err |-> "StackOverflowError", val |-> << >>]

\* void update_helper(int node, int start, int end, int idx, T val); Java:
\* private void update(...). A leaf outside the array is Java's
\* ArrayIndexOutOfBoundsException, and a call that recurses with its own
\* arguments never returns (StackOverflowError); neither happens when
\* 0 <= start <= end.
RECURSIVE update_helper(_, _, _, _, _, _)
update_helper(t, node, start, end, idx, val) ==
    IF start = end
    THEN IF node >= Len(t) THEN [tree |-> t, ret |-> ArrayIndexOutOfBounds]
         ELSE [tree |-> TreeSet(t, node, val), ret |-> Ok(0)]
    ELSE LET mid == Half(start + end)
             goLeft == idx <= mid
             child == IF goLeft THEN LeftChild(node) ELSE RightChild(node)
             cs == IF goLeft THEN start ELSE mid + 1
             ce == IF goLeft THEN mid ELSE end
         IN IF cs = start /\ ce = end THEN [tree |-> t, ret |-> StackOverflow]
            ELSE LET r == update_helper(t, child, cs, ce, idx, val)
                 IN IF r.ret.err # "none" THEN r
                    ELSE [tree |-> TreeSet(r.tree, node,
                                      Plus(TreeAt(r.tree, LeftChild(node)),
                                           TreeAt(r.tree, RightChild(node)))),
                          ret |-> Ok(0)]

\* void update(int idx, T val)   (C++)
st_update(t, n, idx, val) ==
    IF idx < 0 \/ idx >= n THEN [tree |-> t, ret |-> OutOfRange]
    ELSE update_helper(t, RootNode, 0, n - 1, idx, val)

\* void update(int idx, T value)   (Java: no check of idx)
st_update_java(t, n, idx, val) == update_helper(t, RootNode, 0, n - 1, idx, val)

\* faulty variant of query_helper: the two halves are combined right to left
RECURSIVE query_helperSwapped(_, _, _, _, _, _)
query_helperSwapped(t, node, start, end, left, right) ==
    IF right < start \/ left > end THEN st_zero
    ELSE IF left <= start /\ end <= right THEN TreeAt(t, node)
    ELSE LET mid == Half(start + end)
             left_sum == query_helperSwapped(t, LeftChild(node), start, mid, left, right)
             right_sum == query_helperSwapped(t, RightChild(node), mid + 1, end, left, right)
         IN Plus(right_sum, left_sum)

\* T query_helper(int node, int start, int end, int left, int right)
RECURSIVE query_helper(_, _, _, _, _, _)
query_helper(t, node, start, end, left, right) ==
    IF right < start \/ left > end THEN st_zero
    ELSE IF left <= start /\ end <= right THEN TreeAt(t, node)
    ELSE LET mid == Half(start + end)
             left_sum == query_helper(t, LeftChild(node), start, mid, left, right)
             right_sum == query_helper(t, RightChild(node), mid + 1, end, left, right)
         IN Plus(left_sum, right_sum)

\* faulty variant of st_query: left > right is not rejected
st_queryNoOrderCheck(t, n, left, right) ==
    IF left < 0 \/ right >= n THEN OutOfRange
    ELSE Ok(query_helper(t, RootNode, 0, n - 1, left, right))

\* T query(int left, int right)   (C++)
st_query(t, n, left, right) ==
    IF left < 0 \/ right >= n \/ left > right THEN OutOfRange
    ELSE Ok(query_helper(t, RootNode, 0, n - 1, left, right))

\* T query(int l, int r)   (Java)
st_query_java(t, n, l, r) ==
    IF l < 0 \/ r >= n \/ l > r THEN IllegalArgument
    ELSE Ok(query_helper(t, RootNode, 0, n - 1, l, r))

\* a[left] + ... + a[right], combined in index order
RECURSIVE RangeFold(_, _, _)
RangeFold(a, left, right) ==
    IF left > right THEN st_zero
    ELSE Plus(a[left + 1], RangeFold(a, left + 1, right))

STIndices == -1 .. st_n

InitST ==
    /\ made \in {"SegmentTree<int>", "SegmentTree<std::string>", "segment_tree.SegmentTree"}
    /\ FenwickNone /\ PQNew /\ HeapNew /\ UFNone /\ GraphNone /\ SkipNone /\ TrieNone
    /\ \E n \in 0 .. MaxElems : \E a \in [1 .. n -> ElemVals] :
        /\ st_n = n
        /\ st_tree = SegmentTree(a)
        /\ st_arr = a
        /\ call = Call("new", n, 0)
    /\ st_stray = FALSE
    /\ ret = Ok(0)

\* assigns the tree from the outcome of an update, and the caller's array
\* when idx is one of its indices
Updated(o, idx, val) ==
    /\ st_tree' = o.tree
    /\ ret' = o.ret
    /\ st_arr' = IF o.ret.err = "none" /\ 0 <= idx /\ idx < st_n
                 THEN [st_arr EXCEPT ![idx + 1] = val] ELSE st_arr
    /\ st_stray' = (st_stray \/ (o.ret.err = "none" /\ (idx < 0 \/ idx >= st_n)))
    /\ call' = Call("update", idx, val)
    /\ UNCHANGED <<made, st_n, notST>>

STUpdate(idx, val) ==
    /\ ~IsJavaST
    /\ Updated(st_update(st_tree, st_n, idx, val), idx, val)

STUpdateJava(idx, val) ==
    /\ IsJavaST
    /\ Updated(st_update_java(st_tree, st_n, idx, val), idx, val)

STQuery(left, right) ==
    /\ ~IsJavaST
    /\ ret' = st_query(st_tree, st_n, left, right)
    /\ call' = Call("query", left, right)
    /\ UNCHANGED <<made, stVars, notST>>

STQueryJava(l, r) ==
    /\ IsJavaST
    /\ ret' = st_query_java(st_tree, st_n, l, r)
    /\ call' = Call("query", l, r)
    /\ UNCHANGED <<made, stVars, notST>>

NextST ==
    \/ \E idx \in STIndices, val \in UpdateVals : STUpdate(idx, val)
    \/ \E idx \in STIndices, val \in UpdateVals : STUpdateJava(idx, val)
    \/ \E left \in STIndices, right \in STIndices : STQuery(left, right)
    \/ \E l \in STIndices, r \in STIndices : STQueryJava(l, r)

SpecST == InitST /\ [][NextST]_vars

----------------------------------------------------------------------------
(* Claims about the segment tree *)

\* C14: after construction from A and any sequence of point assignments
\* update(i, v) with 0 <= i < n, query(l, r) with 0 <= l <= r < n returns
\* A[l] + ... + A[r] of the current A combined in index order, also when +
\* is string concatenation.
C14_QueryIsRangeFold ==
    (/\ call.op = "query"
     /\ 0 <= call.a /\ call.a <= call.b /\ call.b < st_n
     /\ ~st_stray)
        => ret = Ok(RangeFold(st_arr, call.a, call.b))

\* C14 witness: a query over the whole string tree of three elements answers
\* with the updated value "X" in the middle and different letters around it.
C14_Witness ==
    /\ IsStringST /\ call.op = "query" /\ call.a = 0 /\ call.b = 2
    /\ ret = Ok(<<"a", "X", "b">>)

\* C15: query(left, right) fails with an error whenever left < 0,
\* right >= n or left > right, so every query on an empty tree fails.
C15_QueryRejectsBadRange ==
    (/\ call.op = "query"
     /\ (call.a < 0 \/ call.b >= st_n \/ call.a > call.b))
        => ret.err # "none"

\* C15 witness: a query with both bounds inside the array but left > right
\* was refused.
C15_Witness ==
    /\ call.op = "query" /\ ret.err # "none"
    /\ 0 <= call.b /\ call.b < call.a /\ call.a < st_n

\* C16: update(idx, value) with idx < 0 or idx >= n is signaled as an error
\* and leaves every element of the tree as it was.
C16_UpdateRejectsBadIndex ==
    [][(call'.op = "update" /\ (call'.a < 0 \/ call'.a >= st_n)) =>
            (ret'.err # "none" /\ st_tree' = st_tree)]_vars

----------------------------------------------------------------------------
(* Graphs: what the graph classes are checked against *)

MaxEdges == 2       \* calls of add_edge

GNodes == {1, 2, 3}

SetMin(S) == CHOOSE x \in S : \A y \in S : x <= y

\* node sequences without a repeated node
SimplePaths ==
    {p \in UNION {[1 .. k -> GNodes] : k \in 1 .. Cardinality(GNodes)} :
        \A i \in DOMAIN p, j \in DOMAIN p : p[i] = p[j] => i = j}

\* E is a set of edges <<u, v, weight>>
EdgeWeights(E, u, v) == {e[3] : e \in {f \in E : f[1] = u /\ f[2] = v}}

IsPath(E, p) == \A i \in 1 .. (Len(p) - 1) : EdgeWeights(E, p[i], p[i + 1]) # {}

RECURSIVE PathWeight(_, _)
PathWeight(E, p) ==
    IF Len(p) <= 1 THEN 0
    ELSE SetMin(EdgeWeights(E, p[1], p[2])) + PathWeight(E, Tail(p))

PathsBetween(E, s, t) == {p \in SimplePaths : p[1] = s /\ p[Len(p)] = t /\ IsPath(E, p)}

Reachable(E, s) == {t \in GNodes : PathsBetween(E, s, t) # {}}

\* least weight of a simple path from s to t, for t reachable from s
TrueDistance(E, s, t) == SetMin({PathWeight(E, p) : p \in PathsBetween(E, s, t)})

----------------------------------------------------------------------------
(* Dijkstra (src/unnamed/part_010 lines 150-219, src/cpp/dijkstra.cpp)       *)

DijkstraWeights == {0, 2}

\* pq.top() of the min-heap of (distance, node) pairs under std::greater
MinEntry(q) == CHOOSE p \in q : \A r \in q : p[1] < r[1] \/ (p[1] = r[1] /\ p[2] <= r[2])

\* faulty variant of RelaxEdges: a distance once set is never lowered
RECURSIVE RelaxEdgesFirstOnly(_, _, _, _, _)
RelaxEdgesFirstOnly(adj, i, u, current_dist, st) ==
    IF i > Len(adj) THEN st
    ELSE LET v == adj[i][1]
             new_dist == current_dist + adj[i][2]
         IN IF v \notin DOMAIN st.distances
            THEN RelaxEdgesFirstOnly(adj, i + 1, u, current_dist,
                    [distances |-> Put(st.distances, v, new_dist),
                     predecessors |-> Put(st.predecessors, v, JRef(u)),
                     pq |-> st.pq \cup {<<new_dist, v>>}])
            ELSE RelaxEdgesFirstOnly(adj, i + 1, u, current_dist, st)

\* for (const auto& [v, weight] : graph[u]) { ... } of shortest_paths
RECURSIVE RelaxEdges(_, _, _, _, _)
RelaxEdges(adj, i, u, current_dist, st) ==
    IF i > Len(adj) THEN st
    ELSE LET v == adj[i][1]
             new_dist == current_dist + adj[i][2]
         IN IF v \notin DOMAIN st.distances \/ new_dist < st.distances[v]
            THEN RelaxEdges(adj, i + 1, u, current_dist,
                    [distances |-> Put(st.distances, v, new_dist),
                     predecessors |-> Put(st.predecessors, v, JRef(u)),
                     pq |-> st.pq \cup {<<new_dist, v>>}])
            ELSE RelaxEdges(adj, i + 1, u, current_dist, st)

\* while (!pq.empty()) { ... } of shortest_paths
RECURSIVE DijkstraLoop(_, _, _)
DijkstraLoop(g, st, visited) ==
    IF st.pq = {} THEN st
    ELSE LET top == MinEntry(st.pq)
             u == top[2]
             popped == [st EXCEPT !.pq = st.pq \ {top}]
         IN IF u \in visited THEN DijkstraLoop(g, popped, visited)
            ELSE DijkstraLoop(g, RelaxEdges(g[u], 1, u, top[1], popped), visited \cup {u})

\* shortest_paths(NodeT source): the pair (distances, predecessors)
dijkstra_shortest_paths(g, source) ==
    LET st == DijkstraLoop(g, [distances |-> (source :> 0),
                               predecessors |-> (source :> JNull),
                               pq |-> {<<0, source>>}], {})
    IN [distances |-> st.distances, predecessors |-> st.predecessors]

\* while (current.has_value()) { ... } followed by std::reverse
RECURSIVE WalkBack(_, _, _)
WalkBack(predecessors, current, path) ==
    IF current = JNull THEN path
    ELSE WalkBack(predecessors, predecessors[current[1]], <<current[1]>> \o path)

\* std::optional<std::vector<NodeT>> shortest_path(NodeT source, NodeT target)
dijkstra_shortest_path(g, source, target) ==
    LET r == dijkstra_shortest_paths(g, source)
    IN IF target \notin DOMAIN r.predecessors THEN JNull
       ELSE JRef(WalkBack(r.predecessors, JRef(target), << >>))

\* the edges of a Dijkstra graph as a set of <<u, v, weight>>
AdjEdges(g) == UNION {{<<u, g[u][i][1], g[u][i][2]>> : i \in DOMAIN g[u]} : u \in DOMAIN g}

\* number of add_edge calls so far
RECURSIVE EdgeCount(_, _)
EdgeCount(g, S) ==
    IF S = {} THEN 0
    ELSE LET u == CHOOSE x \in S : TRUE IN Len(g[u]) + EdgeCount(g, S \ {u})

InitDijkstra ==
    /\ made = "Dijkstra"
    /\ FenwickNone /\ PQNew /\ HeapNew /\ UFNone /\ STNone /\ SkipNone /\ TrieNone
    /\ graph = [u \in GNodes |-> << >>]
    /\ call = Call("new", 0, 0)
    /\ ret = Ok(0)

\* void add_edge(NodeT u, NodeT v, WeightT weight)
DijkstraAddEdge(u, v, weight) ==
    /\ EdgeCount(graph, GNodes) < MaxEdges
    /\ graph' = [graph EXCEPT ![u] = Append(@, <<v, weight>>)]
    /\ call' = Call("add_edge", u, v)
    /\ ret' = Ok(0)
    /\ UNCHANGED <<made, notGraph>>

DijkstraShortestPaths(source) ==
    /\ ret' = Ok(dijkstra_shortest_paths(graph, source))
    /\ call' = Call("shortest_paths", source, 0)
    /\ UNCHANGED <<made, gVars, notGraph>>

DijkstraShortestPath(source, target) ==
    /\ ret' = Ok(dijkstra_shortest_path(graph, source, target))
    /\ call' = Call("shortest_path", source, target)
    /\ UNCHANGED <<made, gVars, notGraph>>

NextDijkstra ==
    \/ \E u \in GNodes, v \in GNodes, weight \in DijkstraWeights : DijkstraAddEdge(u, v, weight)
    \/ \E source \in GNodes : DijkstraShortestPaths(source)
    \/ \E source \in GNodes, target \in GNodes : DijkstraShortestPath(source, target)

SpecDijkstra == InitDijkstra /\ [][NextDijkstra]_vars

----------------------------------------------------------------------------
(* Bellman-Ford (src/unnamed/part_006, Java: src/java/suffix_array.java)     *)

Infinity == 999999

BFWeights == {-2, 1}

IsJavaBF == made = "suffix_array.BellmanFord"

\* the inner for (const auto& e : edges) { ... } of one pass
RECURSIVE RelaxAll(_, _, _)
RelaxAll(edges, i, distances) ==
    IF i > Len(edges) THEN distances
    ELSE LET e == edges[i]
         IN IF distances[e[1]] # Infinity /\ distances[e[1]] + e[3] < distances[e[2]]
            THEN RelaxAll(edges, i + 1, [distances EXCEPT ![e[2]] = distances[e[1]] + e[3]])
            ELSE RelaxAll(edges, i + 1, distances)

\* faulty variant of PassCount: one pass fewer
PassCountOneFewer(n) == n - 2

\* nodes.size() - 1: an int in Java; a size_t in C++, where it is 2^64 - 1
\* for an empty node set, here the largest integer there is
PassCount(n) == IF n = 0 /\ ~IsJavaBF THEN 2147483647 ELSE n - 1

\* how often the body of for (i = 0; i < nodes.size() - 1; i++) is entered
PassesRun(n) == IF PassCount(n) > 0 THEN PassCount(n) ELSE 0

\* for (size_t i = 0; i < nodes.size() - 1; i++): count passes; once a pass
\* changes nothing the remaining ones change nothing either
RECURSIVE Passes(_, _, _)
Passes(edges, count, distances) ==
    IF count <= 0 THEN distances
    ELSE LET next == RelaxAll(edges, 1, distances)
         IN IF next = distances THEN distances ELSE Passes(edges, count - 1, next)

\* std::optional<std::map<NodeT, WeightT>> shortest_paths(NodeT source)
bf_shortest_paths(g, source) ==
    LET start == [n \in g.nodes \cup {source} |-> IF n = source THEN 0 ELSE Infinity]
        distances == Passes(g.edges, PassCount(Cardinality(g.nodes)), start)
    IN IF \E i \in DOMAIN g.edges :
            /\ distances[g.edges[i][1]] # Infinity
            /\ distances[g.edges[i][1]] + g.edges[i][3] < distances[g.edges[i][2]]
       THEN JNull
       ELSE JRef(distances)

InitBF ==
    /\ made \in {"BellmanFord", "suffix_array.BellmanFord"}
    /\ FenwickNone /\ PQNew /\ HeapNew /\ UFNone /\ STNone /\ SkipNone /\ TrieNone
    /\ graph = [edges |-> << >>, nodes |-> {}]
    /\ call = Call("new", 0, 0)
    /\ ret = Ok(0)

\* void add_edge(NodeT u, NodeT v, WeightT weight)
BFAddEdge(u, v, weight) ==
    /\ Len(graph.edges) < MaxEdges
    /\ graph' = [edges |-> Append(graph.edges, <<u, v, weight>>),
                 nodes |-> graph.nodes \cup {u, v}]
    /\ call' = Call("add_edge", u, v)
    /\ ret' = Ok(0)
    /\ UNCHANGED <<made, notGraph>>

\* b of the call record is the number of passes the loop of shortest_paths runs
BFShortestPaths(source) ==
    /\ ret' = Ok(bf_shortest_paths(graph, source))
    /\ call' = Call("shortest_paths", source, PassesRun(Cardinality(graph.nodes)))
    /\ UNCHANGED <<made, gVars, notGraph>>

NextBF ==
    \/ \E u \in GNodes, v \in GNodes, weight \in BFWeights : BFAddEdge(u, v, weight)
    \/ \E source \in GNodes : BFShortestPaths(source)

SpecBF == InitBF /\ [][NextBF]_vars

SeqSet(s) == {s[i] : i \in DOMAIN s}

\* some cycle of negative total weight starts at a node reachable from s
NegativeCycleReachable(E, s) ==
    \E p \in SimplePaths :
        /\ IsPath(E, p)
        /\ EdgeWeights(E, p[Len(p)], p[1]) # {}
        /\ PathWeight(E, p) + SetMin(EdgeWeights(E, p[Len(p)], p[1])) < 0
        /\ p[1] \in Reachable(E, s)

\* C18: shortest_paths(source) returns the empty optional exactly when a
\* negative-weight cycle is reachable from source; otherwise the map gives
\* every reachable node its least path weight and every unreachable node
\* the infinity value.
C18_BellmanFordDistances ==
    call.op = "shortest_paths" =>
        LET E == SeqSet(graph.edges)
            s == call.a
        IN /\ (ret.val = JNull) <=> NegativeCycleReachable(E, s)
           /\ ret.val # JNull =>
                /\ DOMAIN ret.val[1] = graph.nodes \cup {s}
                /\ \A t \in DOMAIN ret.val[1] :
                      ret.val[1][t] = IF t \in Reachable(E, s)
                                      THEN TrueDistance(E, s, t) ELSE Infinity

\* C18 witness: node 2 carries a negative self-loop that node 1 cannot reach;
\* shortest_paths(1) answers with a map, infinity for node 2 and the edge's
\* weight for node 3.
C18_Witness ==
    /\ call.op = "shortest_paths" /\ call.a = 1
    /\ graph.edges = <<<<2, 2, -2>>, <<1, 3, 1>>>>
    /\ ret.val = JRef((1 :> 0 @@ 2 :> Infinity @@ 3 :> 1))

----------------------------------------------------------------------------
(* 2-SAT (src/unnamed/part_007, Java: src/java/two_sat.java)                 *)

MaxClauses == 2     \* calls of add_clause

VarCounts == {0, 1, 2}

IsJavaSAT == made = "two_sat.TwoSAT"

\* graph[node] of a vector indexed from 0
Adj(adj, node) == adj[node + 1]

RECURSIVE dfs1(_, _, _)
RECURSIVE Dfs1Neighbors(_, _, _, _)

\* for (int neighbor : graph[node]) { if (!visited[neighbor]) dfs1(...); }
Dfs1Neighbors(adj, nbrs, i, st) ==
    IF i > Len(nbrs) THEN st
    ELSE Dfs1Neighbors(adj, nbrs, i + 1,
            IF nbrs[i] \in st.visited THEN st ELSE dfs1(adj, nbrs[i], st))

\* void dfs1(int node, std::vector<bool>& visited, std::vector<int>& finish_order)
dfs1(adj, node, st) ==
    LET entered == [st EXCEPT !.visited = @ \cup {node}]
        done == Dfs1Neighbors(adj, Adj(adj, node), 1, entered)
    IN [done EXCEPT !.finish_order = Append(@, node)]

RECURSIVE dfs2(_, _, _, _)
RECURSIVE Dfs2Neighbors(_, _, _, _, _)

Dfs2Neighbors(adj, nbrs, i, st, scc) ==
    IF i > Len(nbrs) THEN st
    ELSE Dfs2Neighbors(adj, nbrs, i + 1,
            IF nbrs[i] \in st.visited THEN st ELSE dfs2(adj, nbrs[i], st, scc), scc)

\* void dfs2(int node, std::vector<bool>& visited, std::vector<int>& scc_id, int scc)
dfs2(adj, node, st, scc) ==
    Dfs2Neighbors(adj, Adj(adj, node), 1,
        [st EXCEPT !.visited = @ \cup {node}, !.scc_id[node] = scc], scc)

\* for (int node = 0; node < 2 * n; node++) { if (!visited[node]) dfs1(...); }
RECURSIVE FirstPass(_, _, _, _)
FirstPass(adj, node, n2, st) ==
    IF node >= n2 THEN st
    ELSE FirstPass(adj, node + 1, n2,
            IF node \in st.visited THEN st ELSE dfs1(adj, node, st))

\* for (int i = finish_order.size() - 1; i >= 0; i--) { ... current_scc++ ... }
RECURSIVE SecondPass(_, _, _, _)
SecondPass(adj, finish_order, i, st) ==
    IF i < 0 THEN st
    ELSE LET node == finish_order[i + 1]
         IN SecondPass(adj, finish_order, i - 1,
                IF node \in st.visited THEN st
                ELSE [dfs2(adj, node, st, st.current_scc)
                        EXCEPT !.current_scc = st.current_scc + 1])

\* the scc_id vector solve() computes
SccIds(o) ==
    LET first == FirstPass(o.graph, 0, 2 * o.n, [visited |-> {}, finish_order |-> << >>])
        second == SecondPass(o.transpose, first.finish_order, Len(first.finish_order) - 1,
                    [visited |-> {}, scc_id |-> [k \in 0 .. (2 * o.n - 1) |-> 0],
                     current_scc |-> 0])
    IN second.scc_id

\* if (scc_id[2 * i] == scc_id[2 * i + 1]) for some i
Contradictory(n, scc_id) == \E i \in 0 .. (n - 1) : scc_id[2 * i] = scc_id[2 * i + 1]

\* faulty variant of Assignment: the comparison is turned round
AssignmentFlipped(n, scc_id) == [k \in 1 .. n |-> scc_id[2 * (k - 1)] < scc_id[2 * (k - 1) + 1]]

\* assignment[i] = scc_id[2 * i] > scc_id[2 * i + 1]; position k is index k - 1
Assignment(n, scc_id) == [k \in 1 .. n |-> scc_id[2 * (k - 1)] > scc_id[2 * (k - 1) + 1]]

\* std::vector<bool> solve(): return {} when contradictory
twosat_solve(o) ==
    LET scc_id == SccIds(o)
    IN IF Contradictory(o.n, scc_id) THEN << >> ELSE Assignment(o.n, scc_id)

\* Java: boolean[] solve(): return null when contradictory
twosat_solve_java(o) ==
    LET scc_id == SccIds(o)
    IN IF Contradictory(o.n, scc_id) THEN JNull ELSE JRef(Assignment(o.n, scc_id))

\* TwoSAT(int n); clauses is the list of clauses the caller has added
InitSAT ==
    /\ made \in {"TwoSAT", "two_sat.TwoSAT"}
    /\ FenwickNone /\ PQNew /\ HeapNew /\ UFNone /\ STNone /\ SkipNone /\ TrieNone
    /\ \E n \in VarCounts :
        /\ graph = [n |-> n, graph |-> [k \in 1 .. (2 * n) |-> << >>],
                    transpose |-> [k \in 1 .. (2 * n) |-> << >>], clauses |-> << >>]
        /\ call = Call("new", n, 0)
    /\ ret = Ok(0)

\* void add_clause(int a, bool a_neg, int b, bool b_neg)
AddClause(a, a_neg, b, b_neg) ==
    /\ Len(graph.clauses) < MaxClauses
    /\ LET a_node == 2 * a + (IF a_neg THEN 1 ELSE 0)
           b_node == 2 * b + (IF b_neg THEN 1 ELSE 0)
           na_node == 2 * a + (IF a_neg THEN 0 ELSE 1)
           nb_node == 2 * b + (IF b_neg THEN 0 ELSE 1)
           g1 == [graph.graph EXCEPT ![na_node + 1] = Append(@, b_node)]
           t1 == [graph.transpose EXCEPT ![b_node + 1] = Append(@, na_node)]
       IN graph' = [n |-> graph.n,
                    graph |-> [g1 EXCEPT ![nb_node + 1] = Append(@, a_node)],
                    transpose |-> [t1 EXCEPT ![a_node + 1] = Append(@, nb_node)],
                    clauses |-> Append(graph.clauses, <<a, a_neg, b, b_neg>>)]
    /\ call' = Call("add_clause", a, b)
    /\ ret' = Ok(0)
    /\ UNCHANGED <<made, notGraph>>

Solve ==
    /\ ~IsJavaSAT
    /\ ret' = Ok(twosat_solve(graph))
    /\ call' = Call("solve", 0, 0)
    /\ UNCHANGED <<made, gVars, notGraph>>

SolveJava ==
    /\ IsJavaSAT
    /\ ret' = Ok(twosat_solve_java(graph))
    /\ call' = Call("solve", 0, 0)
    /\ UNCHANGED <<made, gVars, notGraph>>

NextSAT ==
    \/ \E a \in 0 .. (graph.n - 1), b \in 0 .. (graph.n - 1), a_neg \in BOOLEAN, b_neg \in BOOLEAN :
            AddClause(a, a_neg, b, b_neg)
    \/ Solve
    \/ SolveJava

SpecSAT == InitSAT /\ [][NextSAT]_vars

\* asg (position k is variable k - 1) makes the clause true
Satisfies(asg, c) == (asg[c[1] + 1] # c[2]) \/ (asg[c[3] + 1] # c[4])

SatisfiesAll(asg, clauses) == \A i \in DOMAIN clauses : Satisfies(asg, clauses[i])

Satisfiable(n, clauses) == \E asg \in [1 .. n -> BOOLEAN] : SatisfiesAll(asg, clauses)

\* what solve() returned is the empty vector, or null in Java
EmptyResult == ret.val = << >>

\* the assignment solve() returned
Returned == IF IsJavaSAT THEN ret.val[1] ELSE ret.val

\* C19 as stated: for any n and any added clauses, solve() returns the
\* empty/null result exactly when the clauses are unsatisfiable, and
\* otherwise an assignment of length n that makes every clause true.
C19_EmptyIffUnsatisfiable ==
    call.op = "solve" =>
        /\ EmptyResult <=> ~Satisfiable(graph.n, graph.clauses)
        /\ ~EmptyResult =>
              /\ Len(Returned) = graph.n
              /\ SatisfiesAll(Returned, graph.clauses)

\* C19: solve() returns the empty/null result whenever the clauses are
\* unsatisfiable; when they are satisfiable it returns an assignment of
\* length n that makes every clause true, which is non-null in Java and a
\* non-empty vector in C++ for n >= 1; with n = 0 the C++ result is the
\* empty vector although the empty conjunction is satisfiable.
C19_SolveDecides ==
    call.op = "solve" =>
        /\ ~Satisfiable(graph.n, graph.clauses) => EmptyResult
        /\ Satisfiable(graph.n, graph.clauses) =>
              /\ (IsJavaSAT \/ graph.n >= 1) => ~EmptyResult
              /\ (~IsJavaSAT /\ graph.n = 0) => EmptyResult
              /\ ~EmptyResult =>
                    /\ Len(Returned) = graph.n
                    /\ SatisfiesAll(Returned, graph.clauses)

\* C19 witness: x0 and (not x0 or not x1) were added; solve() answered
\* x0 = true, x1 = false.
C19_Witness ==
    /\ call.op = "solve" /\ ~IsJavaSAT /\ graph.n = 2
    /\ graph.clauses = <<<<0, FALSE, 0, FALSE>>, <<0, TRUE, 1, TRUE>>>>
    /\ ret.val = <<TRUE, FALSE>>

----------------------------------------------------------------------------
(* Topological sort (src/unnamed/part_018, Java: src/unnamed/part_025)       *)

JavaNodeCounts == {0, 1, 2, 3}

IsJavaTopo == made = "topological_sort.TopologicalSort"

\* the elements of S in ascending order, the iteration order of std::map
RECURSIVE Ascending(_)
Ascending(S) == IF S = {} THEN << >> ELSE <<SetMin(S)>> \o Ascending(S \ {SetMin(S)})

\* for (const auto& neighbor : graph[node]) { in_deg[neighbor]--; ... q.push(neighbor); }
RECURSIVE KahnNeighbors(_, _, _)
KahnNeighbors(nbrs, i, st) ==
    IF i > Len(nbrs) THEN st
    ELSE LET v == nbrs[i]
             lowered == [st EXCEPT !.in_deg[v] = @ - 1]
         IN KahnNeighbors(nbrs, i + 1,
                IF lowered.in_deg[v] = 0 THEN [lowered EXCEPT !.q = Append(@, v)]
                ELSE lowered)

\* while (!q.empty()) { ... }
RECURSIVE KahnLoop(_, _)
KahnLoop(adj, st) ==
    IF st.q = << >> THEN st
    ELSE LET node == Head(st.q)
         IN KahnLoop(adj, KahnNeighbors(adj[node], 1,
                [st EXCEPT !.q = Tail(@), !.result = Append(@, node)]))

\* the result vector after the loop
KahnResult(adj, in_degree) ==
    KahnLoop(adj, [in_deg |-> in_degree,
                   q |-> Ascending({n \in DOMAIN in_degree : in_degree[n] = 0}),
                   result |-> << >>]).result

\* faulty variant of Kahn: the result is returned whatever its size
KahnNoSizeCheck(adj, in_degree) == JRef(KahnResult(adj, in_degree))

\* if (result.size() != in_degree.size()) return std::nullopt; return result;
Kahn(adj, in_degree) ==
    LET result == KahnResult(adj, in_degree)
    IN IF Len(result) # Cardinality(DOMAIN in_degree) THEN JNull ELSE JRef(result)

\* std::optional<std::vector<NodeT>> kahn_sort()
kahn_sort(o) == Kahn(o.graph, o.in_degree)

\* Java: List<Integer> kahnSort(), which counts the in-degrees itself
kahnSort(o) ==
    Kahn(o.graph,
         [v \in DOMAIN o.graph |->
            Cardinality({e \in UNION {{<<u, i>> : i \in DOMAIN o.graph[u]} : u \in DOMAIN o.graph} :
                            o.graph[e[1]][e[2]] = v})])

RECURSIVE dfs_helper(_, _, _)
RECURSIVE DfsHelperNeighbors(_, _, _, _)

\* for (const auto& neighbor : graph[node]) { if (!dfs_helper(...)) return false; }
DfsHelperNeighbors(adj, nbrs, i, st) ==
    IF i > Len(nbrs) \/ ~st.ok THEN st
    ELSE DfsHelperNeighbors(adj, nbrs, i + 1, dfs_helper(adj, nbrs[i], st))

\* bool dfs_helper(NodeT node, std::map<NodeT, Color>& color, std::vector<NodeT>& result);
\* ok is the value returned
dfs_helper(adj, node, st) ==
    IF st.color[node] = "GRAY" THEN [st EXCEPT !.ok = FALSE]
    ELSE IF st.color[node] = "BLACK" THEN st
    ELSE LET after == DfsHelperNeighbors(adj, adj[node], 1, [st EXCEPT !.color[node] = "GRAY"])
         IN IF ~after.ok THEN after
            ELSE [after EXCEPT !.color[node] = "BLACK", !.result = Append(@, node)]

\* for (const auto& [node, _] : in_degree) { if (color[node] == WHITE && !dfs_helper(...)) ... }
RECURSIVE DfsRoots(_, _, _, _)
DfsRoots(adj, order, k, st) ==
    IF k > Len(order) \/ ~st.ok THEN st
    ELSE DfsRoots(adj, order, k + 1,
            IF st.color[order[k]] = "WHITE" THEN dfs_helper(adj, order[k], st) ELSE st)

\* std::reverse(result.begin(), result.end())
Reversed(s) == [i \in 1 .. Len(s) |-> s[Len(s) + 1 - i]]

\* faulty variant of dfs_sort: the result is not reversed
dfs_sortNoReverse(o) ==
    LET st == DfsRoots(o.graph, Ascending(DOMAIN o.in_degree), 1,
                       [color |-> [n \in DOMAIN o.in_degree |-> "WHITE"],
                        result |-> << >>, ok |-> TRUE])
    IN IF ~st.ok THEN JNull ELSE JRef(st.result)

\* std::optional<std::vector<NodeT>> dfs_sort()
dfs_sort(o) ==
    LET st == DfsRoots(o.graph, Ascending(DOMAIN o.in_degree), 1,
                       [color |-> [n \in DOMAIN o.in_degree |-> "WHITE"],
                        result |-> << >>, ok |-> TRUE])
    IN IF ~st.ok THEN JNull ELSE JRef(Reversed(st.result))

RECURSIVE dfsVisit(_, _, _)
RECURSIVE DfsVisitNeighbors(_, _, _, _)

\* Java: for (int v : graph.get(u)) { ... } of dfsVisit
DfsVisitNeighbors(adj, nbrs, i, st) ==
    IF i > Len(nbrs) \/ ~st.ok THEN st
    ELSE LET v == nbrs[i]
         IN DfsVisitNeighbors(adj, nbrs, i + 1,
                IF v \notin st.visited THEN dfsVisit(adj, v, st)
                ELSE IF v \in st.recStack THEN [st EXCEPT !.ok = FALSE]
                ELSE st)

\* Java: private boolean dfsVisit(int u, Set visited, Set recStack, Stack stack)
dfsVisit(adj, u, st) ==
    LET after == DfsVisitNeighbors(adj, adj[u], 1,
                    [st EXCEPT !.visited = @ \cup {u}, !.recStack = @ \cup {u}])
    IN IF ~after.ok THEN after
       ELSE [after EXCEPT !.recStack = @ \ {u}, !.stack = Append(@, u)]

\* Java: for (int i = 0; i < n; i++) { if (!visited.contains(i)) ... }
RECURSIVE DfsSortRoots(_, _, _, _)
DfsSortRoots(adj, i, n, st) ==
    IF i >= n \/ ~st.ok THEN st
    ELSE DfsSortRoots(adj, i + 1, n, IF i \in st.visited THEN st ELSE dfsVisit(adj, i, st))

\* Java: List<Integer> dfsSort(); popping the stack reverses it
dfsSort(o) ==
    LET st == DfsSortRoots(o.graph, 0, o.n,
                           [visited |-> {}, recStack |-> {}, stack |-> << >>, ok |-> TRUE])
    IN IF ~st.ok THEN JNull ELSE JRef(Reversed(st.stack))

\* dist[neighbor] = std::max(dist[neighbor], dist[node] + 1) for every neighbor
RECURSIVE LongestNeighbors(_, _, _, _)
LongestNeighbors(nbrs, i, node, dist) ==
    IF i > Len(nbrs) THEN dist
    ELSE LongestNeighbors(nbrs, i + 1, node,
            [dist EXCEPT ![nbrs[i]] = IF @ >= dist[node] + 1 THEN @ ELSE dist[node] + 1])

\* for (const auto& node : topo_order.value()) { ... }
RECURSIVE LongestNodes(_, _, _, _)
LongestNodes(adj, order, k, dist) ==
    IF k > Len(order) THEN dist
    ELSE LongestNodes(adj, order, k + 1, LongestNeighbors(adj[order[k]], 1, order[k], dist))

\* faulty variant of longest_path: the order Kahn's loop produced is used unchecked
longest_pathNoCycleCheck(o) ==
    Ok(LongestNodes(o.graph, KahnResult(o.graph, o.in_degree), 1,
                    [n \in DOMAIN o.in_degree |-> 0]))

\* std::map<NodeT, int> longest_path()
longest_path(o) ==
    LET topo_order == kahn_sort(o)
    IN IF topo_order = JNull THEN RuntimeError
       ELSE Ok(LongestNodes(o.graph, topo_order[1], 1, [n \in DOMAIN o.in_degree |-> 0]))

InitTopo ==
    /\ made \in {"TopologicalSort", "topological_sort.TopologicalSort"}
    /\ FenwickNone /\ PQNew /\ HeapNew /\ UFNone /\ STNone /\ SkipNone /\ TrieNone
    /\ IF IsJavaTopo
       THEN \E n \in JavaNodeCounts :
                /\ graph = [n |-> n, graph |-> [u \in 0 .. (n - 1) |-> << >>]]
                /\ call = Call("new", n, 0)
       ELSE /\ graph = [graph |-> EmptyMap, in_degree |-> EmptyMap]
            /\ call = Call("new", 0, 0)
    /\ ret = Ok(0)

\* number of add_edge calls so far
TopoEdgeCount == EdgeCount(graph.graph, DOMAIN graph.graph)

\* void add_edge(NodeT u, NodeT v)
TopoAddEdge(u, v) ==
    /\ ~IsJavaTopo
    /\ TopoEdgeCount < MaxEdges
    /\ LET g1 == IF u \in DOMAIN graph.graph THEN graph.graph ELSE Put(graph.graph, u, << >>)
           d1 == IF u \in DOMAIN graph.graph THEN graph.in_degree ELSE Put(graph.in_degree, u, 0)
           g2 == IF v \in DOMAIN d1 THEN g1 ELSE Put(g1, v, << >>)
           d2 == IF v \in DOMAIN d1 THEN d1 ELSE Put(d1, v, 0)
       IN graph' = [graph |-> [g2 EXCEPT ![u] = Append(@, v)],
                    in_degree |-> [d2 EXCEPT ![v] = @ + 1]]
    /\ call' = Call("add_edge", u, v)
    /\ ret' = Ok(0)
    /\ UNCHANGED <<made, notGraph>>

\* Java: void addEdge(int u, int v)
TopoAddEdgeJava(u, v) ==
    /\ IsJavaTopo
    /\ TopoEdgeCount < MaxEdges
    /\ graph' = [graph EXCEPT !.graph[u] = Append(@, v)]
    /\ call' = Call("add_edge", u, v)
    /\ ret' = Ok(0)
    /\ UNCHANGED <<made, notGraph>>

KahnSort ==
    /\ ~IsJavaTopo
    /\ ret' = Ok(kahn_sort(graph))
    /\ call' = Call("kahn_sort", 0, 0)
    /\ UNCHANGED <<made, gVars, notGraph>>

KahnSortJava ==
    /\ IsJavaTopo
    /\ ret' = Ok(kahnSort(graph))
    /\ call' = Call("kahn_sort", 0, 0)
    /\ UNCHANGED <<made, gVars, notGraph>>

DfsSort ==
    /\ ~IsJavaTopo
    /\ ret' = Ok(dfs_sort(graph))
    /\ call' = Call("dfs_sort", 0, 0)
    /\ UNCHANGED <<made, gVars, notGraph>>

DfsSortJava ==
    /\ IsJavaTopo
    /\ ret' = Ok(dfsSort(graph))
    /\ call' = Call("dfs_sort", 0, 0)
    /\ UNCHANGED <<made, gVars, notGraph>>

LongestPath ==
    /\ ~IsJavaTopo
    /\ ret' = longest_path(graph)
    /\ call' = Call("longest_path", 0, 0)
    /\ UNCHANGED <<made, gVars, notGraph>>

NextTopo ==
    \/ \E u \in GNodes, v \in GNodes : TopoAddEdge(u, v)
    \/ \E u \in DOMAIN graph.graph, v \in DOMAIN graph.graph : TopoAddEdgeJava(u, v)
    \/ KahnSort
    \/ KahnSortJava
    \/ DfsSort
    \/ DfsSortJava
    \/ LongestPath

SpecTopo == InitTopo /\ [][NextTopo]_vars

\* the edges u -> v of an adjacency map
Arcs(adj) == UNION {{<<u, adj[u][i]>> : i \in DOMAIN adj[u]} : u \in DOMAIN adj}

\* some non-empty set of nodes in which every node has an edge into the set:
\* exactly the graphs with a directed cycle
HasCycle(adj) ==
    \E S \in (SUBSET DOMAIN adj) \ {{}} : \A u \in S : \E v \in S : <<u, v>> \in Arcs(adj)

\* order holds every node once, and u before v for every edge u -> v
IsTopologicalOrder(order, adj) ==
    /\ Len(order) = Cardinality(DOMAIN adj)
    /\ SeqSet(order) = DOMAIN adj
    /\ \A e \in Arcs(adj) :
          \E i \in DOMAIN order, j \in DOMAIN order :
              i < j /\ order[i] = e[1] /\ order[j] = e[2]

\* C20: kahn_sort() returns the empty optional exactly when the graph built
\* by add_edge has a directed cycle, self-loops included; otherwise it
\* returns every node exactly once with u before v for every edge u -> v.
C20_KahnSort ==
    call.op = "kahn_sort" =>
        /\ (ret.val = JNull) <=> HasCycle(graph.graph)
        /\ ret.val # JNull => IsTopologicalOrder(ret.val[1], graph.graph)

\* C20 witness: node 1 has an edge to node 2 and node 2 a self-loop; Kahn's
\* loop emitted node 1 and kahn_sort answered with the empty optional.
C20_Witness ==
    /\ call.op = "kahn_sort" /\ ~IsJavaTopo
    /\ graph.graph = (1 :> <<2>> @@ 2 :> <<2>>)
    /\ graph.in_degree = (1 :> 0 @@ 2 :> 2)
    /\ ret.val = JNull

----------------------------------------------------------------------------
(* Invariants of the keyed priority queue and of Union-Find *)

\* C29: after any sequence of set/remove/pop/peek calls, throwing ones
\* included, size() is the number of keys contains() answers true for,
\* empty() holds exactly when that number is 0, and each such key has exactly
\* one heap entry carrying the version recorded for the key.
C29_SizeCountsContainedKeys ==
    IsKeyed =>
        /\ pq_size(size_count) = Cardinality(ContainedKeys(key_versions))
        /\ pq_empty(size_count) <=> (Cardinality(ContainedKeys(key_versions)) = 0)
        /\ \A k \in ContainedKeys(key_versions) :
              Cardinality({e \in pq : e.key = k /\ e.version = key_versions[k]}) = 1

\* C29 witness: a remove has just thrown while the heap holds three entries,
\* two of them stale, and one key is contained.
C29_Witness ==
    /\ IsKeyed /\ call.op = "remove" /\ ret = RuntimeError
    /\ Cardinality(pq) = 3
    /\ pq_size(size_count) = 1

\* C30: after any sequence of find and union calls every non-root element's
\* rank is strictly smaller than its parent's rank, and find ends at an
\* element that is its own parent.
C30_RankGrowsTowardsRoot ==
    \A x \in DOMAIN parent :
        /\ parent[x] # x => rank[x] < rank[parent[x]]
        /\ parent[uf_find(parent, x).ret] = uf_find(parent, x).ret

\* C30 witness: some element's parent is itself not a root, a chain of two
\* links with ranks 0, 1 and 2.
C30_Witness ==
    \E x \in DOMAIN parent :
        /\ parent[x] # x /\ parent[parent[x]] # parent[x]
        /\ rank[x] = 0 /\ rank[parent[x]] = 1 /\ rank[parent[parent[x]]] = 2

----------------------------------------------------------------------------
(* Passes of Bellman-Ford *)

\* C24: shortest_paths(source) performs at most |V| - 1 relaxation passes
\* over the edge list, V being the nodes seen by add_edge, for every
\* instance, one without any add_edge call included.
C24_AtMostVMinusOnePasses ==
    call.op = "shortest_paths" =>
        call.b <= (IF Cardinality(graph.nodes) >= 1 THEN Cardinality(graph.nodes) - 1 ELSE 0)

----------------------------------------------------------------------------
(* Claims about dfs_sort and longest_path *)

SetMax(S) == CHOOSE x \in S : \A y \in S : x >= y

\* node sequences over the graph's nodes that follow its edges, no node twice
ArcPaths(adj) ==
    {p \in UNION {[1 .. k -> DOMAIN adj] : k \in 1 .. Cardinality(DOMAIN adj)} :
        /\ \A i \in DOMAIN p, j \in DOMAIN p : p[i] = p[j] => i = j
        /\ \A i \in 1 .. (Len(p) - 1) : <<p[i], p[i + 1]>> \in Arcs(adj)}

\* number of edges of the longest path that starts, or that ends, at v
LongestFrom(adj, v) == SetMax({Len(p) - 1 : p \in {q \in ArcPaths(adj) : q[1] = v}})
LongestTo(adj, v) == SetMax({Len(p) - 1 : p \in {q \in ArcPaths(adj) : q[Len(q)] = v}})

KahnNow == IF IsJavaTopo THEN kahnSort(graph) ELSE kahn_sort(graph)

\* C26: dfs_sort() returns the empty optional exactly when kahn_sort() does,
\* and a sequence it returns holds every node exactly once with u before v
\* for every edge u -> v.
C26_DfsSortAgreesWithKahn ==
    call.op = "dfs_sort" =>
        /\ (ret.val = JNull) <=> (KahnNow = JNull)
        /\ ret.val # JNull => IsTopologicalOrder(ret.val[1], graph.graph)

\* C26 witness: with the edges 2 -> 3 and 1 -> 2 the C++ dfs_sort finished
\* node 3 first and answered 1, 2, 3.
C26_Witness ==
    /\ call.op = "dfs_sort" /\ ~IsJavaTopo
    /\ graph.graph = (1 :> <<2>> @@ 2 :> <<3>> @@ 3 :> << >>)
    /\ ret.val = JRef(<<1, 2, 3>>)

----------------------------------------------------------------------------
(* Edmonds-Karp maximum flow: src/cpp/edmonds_karp.cpp and the Java
   class EdmondsKarp. graph holds n, the capacity and flow matrices and
   total_flow; added counts the add_edge calls and runs the max_flow
   calls (at most two are told apart). *)

MaxFlowEdges == 2
FlowSizes == {2, 3}
FlowCaps == {1, 2}

\* std::numeric_limits<int>::max(), Integer.MAX_VALUE
IntMax == 2147483647

IsJavaEK == made = "edmonds_karp.EdmondsKarp"

\* the loop of maxFlow can never be left
Diverges == [err |-> "no return", val |-> << >>]

\* T residual = capacity[u][v] - flow[u][v]
Residual(o, u, v) == o.capacity[u][v] - o.flow[u][v]

\* for (int v = 0; v < n; v++) of bfs; st is the queue, visited, parent and
\* whether the sink was reached (return true)
RECURSIVE BfsScan(_, _, _, _, _)
BfsScan(o, sink, u, v, st) ==
    IF v >= o.n THEN st
    ELSE IF v \notin st.visited /\ Residual(o, u, v) > 0
         THEN LET pushed == [q |-> Append(st.q, v),
                             visited |-> st.visited \cup {v},
                             parent |-> [st.parent EXCEPT ![v] = u],
                             found |-> v = sink]
              IN IF v = sink THEN pushed ELSE BfsScan(o, sink, u, v + 1, pushed)
         ELSE BfsScan(o, sink, u, v + 1, st)

\* while (!q.empty()) of bfs
RECURSIVE BfsLoop(_, _, _)
BfsLoop(o, sink, st) ==
    IF st.found \/ st.q = << >> THEN st
    ELSE BfsLoop(o, sink, BfsScan(o, sink, Head(st.q), 0, [st EXCEPT !.q = Tail(@)]))

\* bool bfs(int source, int sink, std::vector<int>& parent)
bfs(o, source, sink, parent0) ==
    BfsLoop(o, sink, [q |-> <<source>>, visited |-> {source},
                      parent |-> [parent0 EXCEPT ![source] = -1], found |-> FALSE])

\* path_flow = std::min(path_flow, capacity[u][v] - flow[u][v]) from v back
\* to the source along parent
RECURSIVE PathMin(_, _, _, _, _)
PathMin(o, source, v, par, path_flow) ==
    IF v = source THEN path_flow
    ELSE LET u == par[v]
             r == Residual(o, u, v)
         IN PathMin(o, source, u, par, IF r < path_flow THEN r ELSE path_flow)

\* flow[u][v] += path_flow; flow[v][u] -= path_flow from v back to the source
RECURSIVE PathPush(_, _, _, _, _)
PathPush(f, source, v, par, path_flow) ==
    IF v = source THEN f
    ELSE LET u == par[v]
             fwd == [f EXCEPT ![u][v] = @ + path_flow]
         IN PathPush([fwd EXCEPT ![v][u] = @ - path_flow], source, u, par, path_flow)

\* while (bfs(source, sink, parent)) { ... } of max_flow
RECURSIVE MaxFlowLoop(_, _, _, _)
MaxFlowLoop(o, source, sink, par) ==
    LET b == bfs(o, source, sink, par)
        path_flow == PathMin(o, source, sink, b.parent, IntMax)
    IN IF ~b.found THEN o
       ELSE MaxFlowLoop([o EXCEPT !.flow = PathPush(@, source, sink, b.parent, path_flow),
                                  !.total_flow = @ + path_flow],
                        source, sink, b.parent)

\* T max_flow(int source, int sink): the object after the call; the value
\* returned is its total_flow. The flow matrix is left as it is on entry.
max_flow(o, source, sink) ==
    MaxFlowLoop([o EXCEPT !.total_flow = 0], source, sink, [v \in 0 .. (o.n - 1) |-> 0])

\* Java: for (int v = 0; v < n; v++) inside the BFS of maxFlow
RECURSIVE BfsScanJava(_, _, _, _)
BfsScanJava(o, u, v, st) ==
    IF v >= o.n THEN st
    ELSE BfsScanJava(o, u, v + 1,
            IF st.parent[v] = -1 /\ Residual(o, u, v) > 0
            THEN [q |-> Append(st.q, v), parent |-> [st.parent EXCEPT ![v] = u]]
            ELSE st)

\* Java: while (!queue.isEmpty() && parent[sink] == -1)
RECURSIVE BfsLoopJava(_, _, _)
BfsLoopJava(o, sink, st) ==
    IF st.q = << >> \/ st.parent[sink] # -1 THEN st
    ELSE BfsLoopJava(o, sink, BfsScanJava(o, Head(st.q), 0, [st EXCEPT !.q = Tail(@)]))

\* Java: the while (true) loop of maxFlow. An iteration that does not
\* break and leaves flow as it was is followed by the same iteration again,
\* for ever; totalFlow is an int and wraps.
RECURSIVE MaxFlowLoopJava(_, _, _, _)
MaxFlowLoopJava(o, source, sink, totalFlow) ==
    LET b == BfsLoopJava(o, sink,
                [q |-> <<source>>,
                 parent |-> [v \in 0 .. (o.n - 1) |-> IF v = source THEN source ELSE -1]])
        pathFlow == PathMin(o, source, sink, b.parent, IntMax)
        pushed == PathPush(o.flow, source, sink, b.parent, pathFlow)
    IN IF b.parent[sink] = -1 THEN [obj |-> o, ret |-> Ok(totalFlow)]
       ELSE IF pushed = o.flow THEN [obj |-> o, ret |-> Diverges]
       ELSE MaxFlowLoopJava([o EXCEPT !.flow = pushed], source, sink, totalFlow + pathFlow)

\* Java: int maxFlow(int source, int sink); the flow is reset first
maxFlow(o, source, sink) ==
    MaxFlowLoopJava([o EXCEPT !.flow = [u \in 0 .. (o.n - 1) |-> [v \in 0 .. (o.n - 1) |-> 0]]],
                    source, sink, 0)

\* EdmondsKarp(int vertices)
InitEK ==
    /\ made \in {"EdmondsKarp", "edmonds_karp.EdmondsKarp"}
    /\ FenwickNone /\ PQNew /\ HeapNew /\ UFNone /\ STNone /\ SkipNone /\ TrieNone
    /\ \E n \in FlowSizes :
         graph = [n |-> n,
                  capacity |-> [u \in 0 .. (n - 1) |-> [v \in 0 .. (n - 1) |-> 0]],
                  flow |-> [u \in 0 .. (n - 1) |-> [v \in 0 .. (n - 1) |-> 0]],
                  total_flow |-> 0, added |-> 0, runs |-> 0]
    /\ call = Call("new", 0, 0)
    /\ ret = Ok(0)

\* void add_edge(int from, int to, T cap); void addEdge(int u, int v, int cap)
EKAddEdge(from, to, cap) ==
    /\ graph.added < MaxFlowEdges
    /\ graph' = [graph EXCEPT !.capacity[from][to] = @ + cap, !.added = @ + 1]
    /\ call' = Call("add_edge", from, to)
    /\ ret' = Ok(0)
    /\ UNCHANGED <<made, notGraph>>

SecondRun(runs) == IF runs = 0 THEN 1 ELSE 2

MaxFlow(source, sink) ==
    /\ ~IsJavaEK
    /\ LET o == max_flow(graph, source, sink)
       IN /\ graph' = [o EXCEPT !.runs = SecondRun(@)]
          /\ ret' = Ok(o.total_flow)
    /\ call' = Call("max_flow", source, sink)
    /\ UNCHANGED <<made, notGraph>>

MaxFlowJava(source, sink) ==
    /\ IsJavaEK
    /\ LET r == maxFlow(graph, source, sink)
       IN /\ graph' = [r.obj EXCEPT !.runs = SecondRun(@)]
          /\ ret' = r.ret
    /\ call' = Call("max_flow", source, sink)
    /\ UNCHANGED <<made, notGraph>>

NextEK ==
    \/ \E from \in 0 .. (graph.n - 1), to \in 0 .. (graph.n - 1), cap \in FlowCaps :
          EKAddEdge(from, to, cap)
    \/ \E source \in 0 .. (graph.n - 1), sink \in 0 .. (graph.n - 1) : MaxFlow(source, sink)
    \/ \E source \in 0 .. (graph.n - 1), sink \in 0 .. (graph.n - 1) : MaxFlowJava(source, sink)

SpecEK == InitEK /\ [][NextEK]_vars

\* capacity of the cut that has S on the source side
CutCapacity(o, S) ==
    LET pairs == {p \in (0 .. (o.n - 1)) \X (0 .. (o.n - 1)) : p[1] \in S /\ p[2] \notin S}
        sum[P \in SUBSET pairs] ==
            IF P = {} THEN 0
            ELSE LET p == CHOOSE x \in P : TRUE
                 IN o.capacity[p[1]][p[2]] + sum[P \ {p}]
    IN sum[pairs]

\* value of a maximum flow: the least capacity of a cut between source and
\* sink (max-flow min-cut); nothing flows from a node to itself
MinCut(o, source, sink) ==
    IF source = sink THEN 0
    ELSE SetMin({CutCapacity(o, S) :
                    S \in {T \in SUBSET (0 .. (o.n - 1)) : source \in T /\ sink \notin T}})

\* C21 as stated: the first max_flow(source, sink) on an instance terminates
\* and returns the value of a maximum flow (the least cut capacity) of the
\* network whose capacities are the sums of the caps added; 0 when the sink
\* cannot be reached.
C21_MaxFlowIsMinCut ==
    (call.op = "max_flow" /\ graph.runs = 1) =>
        ret = Ok(MinCut(graph, call.a, call.b))

\* between two different nodes the first max_flow returns the least cut
MaxFlowDistinctNodes ==
    (call.op = "max_flow" /\ graph.runs = 1 /\ call.a # call.b) =>
        ret = Ok(MinCut(graph, call.a, call.b))

\* C23 as stated: a second max_flow(source, sink) with no add_edge since
\* the first returns the same value as the first.
C23_SecondCallSameValue ==
    [][(call.op = "max_flow" /\ call'.op = "max_flow" /\ call'.a = call.a /\ call'.b = call.b)
         => ret' = ret]_vars

----------------------------------------------------------------------------
(* Bipartite matching: src/unnamed/part_014 (C++, the whole algorithm runs
   in the constructor over an edge list) and src/unnamed/part_026 (Java,
   addEdge then maxMatching). For C++ graph holds the edge list handed to
   the constructor and, once built, the fields of the object. *)

MaxMatchEdges == 4
Sources == {1, 2, 3}
Sinks == {1, 2, 3}
LeftSizes == {2, 3}
RightSizes == {2, 3}

IsJavaBM == made = "bipartite_match.BipartiteMatch"

Front(s) == SubSeq(s, 1, Len(s) - 1)
Back(s) == s[Len(s)]

\* faulty variant of flip: only the top of the two stacks is paired
flipTopOnly(o, source_stack, sink_stack) ==
    [o EXCEPT !.used_sources = Put(@, Back(source_stack), Back(sink_stack)),
              !.used_sinks = Put(@, Back(sink_stack), Back(source_stack))]

\* void flip(std::vector<SourceT>& source_stack, std::vector<SinkT>& sink_stack)
RECURSIVE flip(_, _, _)
flip(o, source_stack, sink_stack) ==
    IF source_stack = << >> THEN o
    ELSE flip([o EXCEPT !.used_sources = Put(@, Back(source_stack), Back(sink_stack)),
                        !.used_sinks = Put(@, Back(sink_stack), Back(source_stack))],
              Front(source_stack), Front(sink_stack))

\* while (true) { ... } of update; indices count from 0 as in the code
RECURSIVE BmUpdateLoop(_, _, _, _, _)
BmUpdateLoop(o, source_stack, sink_stack, index_stack, cur_color) ==
    LET source == Back(source_stack)
        index == Back(index_stack)
        popped == Front(index_stack)
    IN IF index = Len(o.edges[source])
       THEN IF popped = << >> THEN [obj |-> o, ret |-> FALSE]
            ELSE BmUpdateLoop(o, Front(source_stack), Front(sink_stack), popped, cur_color)
       ELSE LET indices == Append(popped, index + 1)
                sink == o.edges[source][index + 1]
                sinks == Append(sink_stack, sink)
            IN IF sink \notin DOMAIN o.used_sinks
               THEN [obj |-> flip(o, source_stack, sinks), ret |-> TRUE]
               ELSE LET owner == o.used_sinks[sink]
                    IN IF o.coloring[owner] = cur_color
                       THEN BmUpdateLoop(o, source_stack, sink_stack, indices, cur_color)
                       ELSE BmUpdateLoop([o EXCEPT !.coloring[owner] = cur_color],
                                         Append(source_stack, owner), sinks,
                                         Append(indices, 0), cur_color)

\* bool update(SourceT start_source, int cur_color)
bm_update(o, start_source, cur_color) ==
    IF start_source \in DOMAIN o.used_sources THEN [obj |-> o, ret |-> FALSE]
    ELSE BmUpdateLoop(o, <<start_source>>, << >>, <<0>>, cur_color)

\* for (const auto& [source, sink] : edge_list) { edges[source].push_back(sink); }
RECURSIVE GroupEdges(_, _, _)
GroupEdges(edge_list, i, acc) ==
    IF i > Len(edge_list) THEN acc
    ELSE LET source == edge_list[i][1]
             sink == edge_list[i][2]
         IN GroupEdges(edge_list, i + 1,
                Put(acc, source, IF source \in DOMAIN acc THEN Append(acc[source], sink)
                                 ELSE <<sink>>))

\* Initial pass: the first edge whose two ends are free is taken, then break
RECURSIVE InitialPass(_, _, _)
InitialPass(o, edge_list, i) ==
    IF i > Len(edge_list) THEN o
    ELSE IF edge_list[i][1] \notin DOMAIN o.used_sources /\ edge_list[i][2] \notin DOMAIN o.used_sinks
         THEN [o EXCEPT !.used_sources = Put(@, edge_list[i][1], edge_list[i][2]),
                        !.used_sinks = Put(@, edge_list[i][2], edge_list[i][1])]
         ELSE InitialPass(o, edge_list, i + 1)

\* for (const auto& source : ordered_sources) { if (update(source, cur_color)) progress = true; }
RECURSIVE BmSweep(_, _, _, _, _)
BmSweep(o, ordered_sources, k, cur_color, progress) ==
    IF k > Len(ordered_sources) THEN [obj |-> o, progress |-> progress]
    ELSE LET r == bm_update(o, ordered_sources[k], cur_color)
         IN BmSweep(r.obj, ordered_sources, k + 1, cur_color, progress \/ r.ret)

\* while (progress) { ...; cur_color++; }
RECURSIVE BmPasses(_, _, _)
BmPasses(o, ordered_sources, cur_color) ==
    LET r == BmSweep(o, ordered_sources, 1, cur_color, FALSE)
    IN IF r.progress THEN BmPasses(r.obj, ordered_sources, cur_color + 1) ELSE r.obj

\* BipartiteMatch(const std::vector<std::pair<SourceT, SinkT>>& edge_list)
BipartiteMatch(edge_list) ==
    LET grouped == GroupEdges(edge_list, 1, EmptyMap)
        fresh == [edges |-> grouped, used_sources |-> EmptyMap, used_sinks |-> EmptyMap,
                  coloring |-> [s \in DOMAIN grouped |-> 0]]
        done == BmPasses(InitialPass(fresh, edge_list, 1), Ascending(DOMAIN grouped), 1)
    IN [edge_list |-> edge_list, built |-> TRUE, edges |-> done.edges,
        used_sources |-> done.used_sources, used_sinks |-> done.used_sinks,
        coloring |-> done.coloring, match |-> done.used_sources]

RECURSIVE bm_dfs(_, _, _)
RECURSIVE BmDfsEdges(_, _, _, _)

\* Java: for (int v : graph.get(u)) { ... } of dfs; st is match, visited
\* and the value returned
BmDfsEdges(adj, u, i, st) ==
    IF i > Len(adj[u]) THEN [st EXCEPT !.ret = FALSE]
    ELSE LET v == adj[u][i]
         IN IF v \in st.visited THEN BmDfsEdges(adj, u, i + 1, st)
            ELSE LET seen == [st EXCEPT !.visited = @ \cup {v}]
                     sub == IF v \notin DOMAIN seen.match THEN [seen EXCEPT !.ret = TRUE]
                            ELSE bm_dfs(adj, seen.match[v], seen)
                 IN IF sub.ret THEN [sub EXCEPT !.match = Put(@, v, u)]
                    ELSE BmDfsEdges(adj, u, i + 1, sub)

\* Java: private boolean dfs(int u)
bm_dfs(adj, u, st) == BmDfsEdges(adj, u, 1, st)

\* Java: for (int u = 0; u < leftSize; u++) { visited = new HashSet<>(); if (dfs(u)) matchingSize++; }
RECURSIVE MaxMatchingLoop(_, _, _, _)
MaxMatchingLoop(o, u, matching, matchingSize) ==
    IF u >= o.leftSize THEN [match |-> matching, ret |-> matchingSize]
    ELSE LET r == bm_dfs(o.graph, u, [match |-> matching, visited |-> {}, ret |-> FALSE])
         IN MaxMatchingLoop(o, u + 1, r.match, IF r.ret THEN matchingSize + 1 ELSE matchingSize)

\* Java: int maxMatching()
maxMatching(o) == MaxMatchingLoop(o, 0, EmptyMap, 0)

\* C++: the edge list is still being written; Java: BipartiteMatch(leftSize, rightSize)
InitBM ==
    /\ made \in {"BipartiteMatch", "bipartite_match.BipartiteMatch"}
    /\ FenwickNone /\ PQNew /\ HeapNew /\ UFNone /\ STNone /\ SkipNone /\ TrieNone
    /\ IF IsJavaBM
       THEN \E l \in LeftSizes, r \in RightSizes :
              graph = [leftSize |-> l, rightSize |-> r,
                       graph |-> [u \in 0 .. (l - 1) |-> << >>],
                       match |-> JNull, added |-> 0]
       ELSE graph = [edge_list |-> << >>, built |-> FALSE, edges |-> EmptyMap,
                     used_sources |-> EmptyMap, used_sinks |-> EmptyMap,
                     coloring |-> EmptyMap, match |-> EmptyMap]
    /\ call = Call("new", 0, 0)
    /\ ret = Ok(0)

\* C++: one more pair in the edge list the constructor will get
BMListEdge(source, sink) ==
    /\ ~IsJavaBM /\ ~graph.built
    /\ Len(graph.edge_list) < MaxMatchEdges
    /\ graph' = [graph EXCEPT !.edge_list = Append(@, <<source, sink>>)]
    /\ call' = Call("edge", source, sink)
    /\ ret' = Ok(0)
    /\ UNCHANGED <<made, notGraph>>

\* C++: BipartiteMatch bm(edge_list)
BMConstruct ==
    /\ ~IsJavaBM /\ ~graph.built
    /\ graph' = BipartiteMatch(graph.edge_list)
    /\ call' = Call("BipartiteMatch", 0, 0)
    /\ ret' = Ok(0)
    /\ UNCHANGED <<made, notGraph>>

\* Java: void addEdge(int u, int v)
BMAddEdge(u, v) ==
    /\ IsJavaBM
    /\ graph.added < MaxMatchEdges
    /\ graph' = [graph EXCEPT !.graph[u] = Append(@, v), !.added = @ + 1]
    /\ call' = Call("add_edge", u, v)
    /\ ret' = Ok(0)
    /\ UNCHANGED <<made, notGraph>>

\* Java: int maxMatching()
BMMaxMatching ==
    /\ IsJavaBM
    /\ LET r == maxMatching(graph)
       IN /\ graph' = [graph EXCEPT !.match = JRef(r.match)]
          /\ ret' = Ok(r.ret)
    /\ call' = Call("max_matching", 0, 0)
    /\ UNCHANGED <<made, notGraph>>

\* the Java object's vertices 0 .. leftSize - 1 and 0 .. rightSize - 1
LeftNodes == IF IsJavaBM THEN 0 .. (graph.leftSize - 1) ELSE {}
RightNodes == IF IsJavaBM THEN 0 .. (graph.rightSize - 1) ELSE {}

NextBM ==
    \/ \E source \in Sources, sink \in Sinks : BMListEdge(source, sink)
    \/ BMConstruct
    \/ \E u \in LeftNodes, v \in RightNodes : BMAddEdge(u, v)
    \/ BMMaxMatching

SpecBM == InitBM /\ [][NextBM]_vars

\* the given edges and the pairs of the resulting match, as (source, sink)
GivenEdges ==
    IF IsJavaBM
    THEN {<<u, graph.graph[u][i]>> : <<u, i>> \in
            {p \in (0 .. (graph.leftSize - 1)) \X (1 .. MaxMatchEdges + 1) :
                p[2] <= Len(graph.graph[p[1]])}}
    ELSE SeqSet(graph.edge_list)

MatchPairs ==
    IF IsJavaBM THEN {<<graph.match[1][v], v>> : v \in DOMAIN graph.match[1]}
    ELSE {<<s, graph.match[s]>> : s \in DOMAIN graph.match}

\* M uses given edges only, and no source and no sink twice
IsMatching(M, E) ==
    /\ M \subseteq E
    /\ \A p \in M, q \in M : (p[1] = q[1] \/ p[2] = q[2]) => p = q

\* a match has been computed for the edges as they are now
Matched ==
    IF IsJavaBM THEN call.op = "max_matching" ELSE call.op = "BipartiteMatch"

----------------------------------------------------------------------------
(* Skip list: src/unnamed/part_012. Nodes are numbered; node Header is the
   header, forward[i] of a node is the number of the next node on level i
   or Nil. random_level() is any level from 0 to max_level. *)

MaxSkipNodes == 3
SkipVals == {1, 2, 3}
MaxLevels == {1, 2}

\* nullptr
Nil == -1

\* header = new SkipListNode<T>(T(), max_level)
Header == 0

\* while (current->forward[i] != nullptr && current->forward[i]->value < value)
RECURSIVE Advance(_, _, _, _)
Advance(nodes, current, i, value) ==
    LET next == nodes[current].forward[i]
    IN IF next # Nil /\ nodes[next].value < value THEN Advance(nodes, next, i, value)
       ELSE current

\* for (int i = level; i >= 0; i--) { ...; update[i] = current; }
\* of insert and remove; the vector starts as max_level + 1 null pointers
RECURSIVE FindPredecessors(_, _, _, _, _)
FindPredecessors(sl, i, current, value, upd) ==
    IF i < 0 THEN [update |-> upd, current |-> current]
    ELSE LET at == Advance(sl.nodes, current, i, value)
         IN FindPredecessors(sl, i - 1, at, value, [upd EXCEPT ![i] = at])

Predecessors(sl, value) ==
    FindPredecessors(sl, sl.level, Header, value, [i \in 0 .. sl.max_level |-> Nil])

\* the node number new returns: one that is not in use
NewNode(nodes) == SetMin({k \in 1 .. (Cardinality(DOMAIN nodes) + 1) : k \notin DOMAIN nodes})

\* for (int i = 0; i <= lvl; i++) { new_node->forward[i] = update[i]->forward[i];
\*                                  update[i]->forward[i] = new_node; }
RECURSIVE Splice(_, _, _, _, _)
Splice(nodes, upd, new_node, i, lvl) ==
    IF i > lvl THEN nodes
    ELSE Splice([nodes EXCEPT ![new_node].forward[i] = nodes[upd[i]].forward[i],
                              ![upd[i]].forward[i] = new_node],
                upd, new_node, i + 1, lvl)

\* SkipList& insert(const T& value), with lvl the level random_level() chose
sl_insert(sl, value, lvl) ==
    LET found == Predecessors(sl, value)
        upd == [i \in 0 .. sl.max_level |->
                    IF i > sl.level /\ i <= lvl THEN Header ELSE found.update[i]]
        new_node == NewNode(sl.nodes)
        fresh == [k \in DOMAIN sl.nodes \cup {new_node} |->
                    IF k = new_node THEN [value |-> value, forward |-> [i \in 0 .. lvl |-> Nil]]
                    ELSE sl.nodes[k]]
    IN [sl EXCEPT !.level = IF lvl > @ THEN lvl ELSE @,
                  !.nodes = Splice(fresh, upd, new_node, 0, lvl)]

\* for (int i = 0; i <= level; i++) { if (update[i]->forward[i] != current) break;
\*                                    update[i]->forward[i] = current->forward[i]; }
RECURSIVE Unlink(_, _, _, _, _)
Unlink(nodes, upd, current, i, top) ==
    IF i > top \/ nodes[upd[i]].forward[i] # current THEN nodes
    ELSE Unlink([nodes EXCEPT ![upd[i]].forward[i] = nodes[current].forward[i]],
                upd, current, i + 1, top)

\* while (level > 0 && header->forward[level] == nullptr) { level--; }
RECURSIVE LowerLevel(_, _)
LowerLevel(nodes, lev) ==
    IF lev > 0 /\ nodes[Header].forward[lev] = Nil THEN LowerLevel(nodes, lev - 1) ELSE lev

\* unlinking, delete current, and the lowering of level
Removed(sl, upd, current) ==
    LET unlinked == Unlink(sl.nodes, upd, current, 0, sl.level)
        kept == [k \in (DOMAIN unlinked) \ {current} |-> unlinked[k]]
    IN [sl EXCEPT !.nodes = kept, !.level = LowerLevel(kept, @)]

\* faulty variant of sl_remove: the value of the node found is not compared
sl_removeAnyNext(sl, value) ==
    LET found == Predecessors(sl, value)
        current == sl.nodes[found.current].forward[0]
    IN IF current = Nil THEN [obj |-> sl, ret |-> FALSE]
       ELSE [obj |-> Removed(sl, found.update, current), ret |-> TRUE]

\* bool remove(const T& value)
sl_remove(sl, value) ==
    LET found == Predecessors(sl, value)
        current == sl.nodes[found.current].forward[0]
    IN IF current = Nil \/ sl.nodes[current].value # value THEN [obj |-> sl, ret |-> FALSE]
       ELSE [obj |-> Removed(sl, found.update, current), ret |-> TRUE]

\* std::vector<T> to_vector() const
RECURSIVE ToVectorFrom(_, _)
ToVectorFrom(nodes, current) ==
    IF current = Nil THEN << >>
    ELSE <<nodes[current].value>> \o ToVectorFrom(nodes, nodes[current].forward[0])

to_vector(sl) == ToVectorFrom(sl.nodes, sl.nodes[Header].forward[0])

\* SkipList(int max_lvl = 16, float prob = 0.5)
InitSkip ==
    /\ made = "SkipList"
    /\ FenwickNone /\ PQNew /\ HeapNew /\ UFNone /\ STNone /\ GraphNone /\ TrieNone
    /\ \E max_lvl \in MaxLevels :
         skiplist = [max_level |-> max_lvl, level |-> 0,
                     nodes |-> (Header :> [value |-> 0, forward |-> [i \in 0 .. max_lvl |-> Nil]])]
    /\ inserted = [v \in SkipVals |-> 0]
    /\ call = Call("new", 0, 0)
    /\ ret = Ok(0)

SLInsert(value, lvl) ==
    /\ Cardinality(DOMAIN skiplist.nodes) <= MaxSkipNodes
    /\ skiplist' = sl_insert(skiplist, value, lvl)
    /\ inserted' = [inserted EXCEPT ![value] = @ + 1]
    /\ call' = Call("insert", value, lvl)
    /\ ret' = Ok(0)
    /\ UNCHANGED <<made, notSkip>>

SLRemove(value) ==
    /\ LET r == sl_remove(skiplist, value)
       IN /\ skiplist' = r.obj
          /\ ret' = Ok(r.ret)
          /\ inserted' = IF r.ret THEN [inserted EXCEPT ![value] = @ - 1] ELSE inserted
    /\ call' = Call("remove", value, 0)
    /\ UNCHANGED <<made, notSkip>>

SLToVector ==
    /\ ret' = Ok(to_vector(skiplist))
    /\ call' = Call("to_vector", 0, 0)
    /\ UNCHANGED <<made, slVars, notSkip>>

NextSkip ==
    \/ \E value \in SkipVals, lvl \in 0 .. skiplist.max_level : SLInsert(value, lvl)
    \/ \E value \in SkipVals : SLRemove(value)
    \/ SLToVector

SpecSkip == InitSkip /\ [][NextSkip]_vars

\* how often v occurs in the sequence s
Occurrences(s, v) == Cardinality({i \in DOMAIN s : s[i] = v})

NonDecreasing(s) == \A i \in 1 .. (Len(s) - 1) : s[i] <= s[i + 1]

\* C27: whatever levels were drawn and whatever inserts and removes were
\* made, to_vector() is non-decreasing and holds each value as often as it
\* was inserted less the removes of it that returned true (duplicates are
\* kept); a remove of a value that is not in the list returns false and
\* changes nothing.
C27_SortedMultiset ==
    /\ [](/\ NonDecreasing(to_vector(skiplist))
          /\ \A v \in SkipVals : Occurrences(to_vector(skiplist), v) = inserted[v]
          /\ \A i \in DOMAIN to_vector(skiplist) : to_vector(skiplist)[i] \in SkipVals
          /\ call.op = "to_vector" => ret = Ok(to_vector(skiplist)))
    /\ [][(call'.op = "remove" /\ Occurrences(to_vector(skiplist), call'.a) = 0)
            => (ret' = Ok(FALSE) /\ skiplist' = skiplist)]_vars

\* C27 witness: the list held 2, 2, 3 and remove(2) returned true, leaving
\* 2, 3 with one 2 of the two inserted still there.
C27_Witness ==
    /\ call.op = "remove" /\ call.a = 2 /\ ret = Ok(TRUE)
    /\ to_vector(skiplist) = <<2, 3>>
    /\ inserted[2] = 1

----------------------------------------------------------------------------
(* Prefix tree: src/cpp/prefix_tree.cpp. A string is a sequence of letters
   (numbers); a node is its keys and, for each key, a child node or null. *)

MaxWords == 2
Letters == {1, 2}
Strings == UNION {[1 .. k -> Letters] : k \in {0, 1, 2, 3}}

\* std::string operator<
StrLess(a, b) ==
    \E k \in 0 .. Len(a) :
        /\ k <= Len(b)
        /\ \A i \in 1 .. k : a[i] = b[i]
        /\ \/ k = Len(a) /\ k < Len(b)
           \/ k < Len(a) /\ k < Len(b) /\ a[k + 1] < b[k + 1]

\* s.substr(pos, n) and s.substr(pos), for pos <= s.length()
Substr(s, pos, n) == SubSeq(s, pos + 1, IF pos + n < Len(s) THEN pos + n ELSE Len(s))
SubstrFrom(s, pos) == SubSeq(s, pos + 1, Len(s))

\* s.find(key) == 0 && s.length() >= key.length()
StartsWith(s, key) == Len(s) >= Len(key) /\ SubSeq(s, 1, Len(key)) = key

\* faulty variant of LowerBound: the first key greater than s (upper_bound)
UpperBound(keys, s) == Cardinality({i \in DOMAIN keys : ~StrLess(s, keys[i])})

\* std::lower_bound(keys.begin(), keys.end(), s) - keys.begin(), keys sorted
LowerBound(keys, s) == Cardinality({i \in DOMAIN keys : StrLess(keys[i], s)})

\* v.insert(v.begin() + pos, x)
InsertAt(v, pos, x) == SubSeq(v, 1, pos) \o <<x>> \o SubSeq(v, pos + 1, Len(v))

\* PrefixTree* child = new PrefixTree(); child->keys.push_back(""); child->values.push_back(nullptr);
EndChild == [keys |-> <<<< >>>>, values |-> <<JNull>>]

\* int prefix = 1; while (prefix < s.length() && prefix < keys[pos].length() && ...) prefix++;
RECURSIVE CommonPrefix(_, _, _)
CommonPrefix(s, key, prefix) ==
    IF prefix < Len(s) /\ prefix < Len(key) /\ s[prefix + 1] = key[prefix + 1]
    THEN CommonPrefix(s, key, prefix + 1)
    ELSE prefix

\* void add(const std::string& s): the node after the call
RECURSIVE pt_add(_, _)
pt_add(node, s) ==
    IF s = << >> \/ node.keys = << >>
    THEN [keys |-> <<s>> \o node.keys, values |-> <<JNull>> \o node.values]
    ELSE
    LET lb == LowerBound(node.keys, s)
        pos == IF lb > 0 /\ node.keys[lb] # << >> /\ node.keys[lb][1] = s[1] THEN lb - 1 ELSE lb
    IN IF pos < Len(node.keys) /\ node.keys[pos + 1] # << >> /\ node.keys[pos + 1][1] = s[1]
       THEN LET key == node.keys[pos + 1]
                value == node.values[pos + 1]
            IN IF StartsWith(s, key)
               THEN LET pt == IF value = JNull THEN EndChild ELSE value[1]
                    IN [node EXCEPT !.values[pos + 1] = JRef(pt_add(pt, SubstrFrom(s, Len(key))))]
               ELSE IF StartsWith(key, s)
               THEN [node EXCEPT
                        !.keys[pos + 1] = s,
                        !.values[pos + 1] =
                            JRef([keys |-> << << >>, SubstrFrom(key, Len(s)) >>,
                                  values |-> <<JNull, value>>])]
               ELSE LET prefix == CommonPrefix(s, key, 1)
                        mine == SubstrFrom(s, prefix)
                        theirs == SubstrFrom(key, prefix)
                    IN [node EXCEPT
                          !.keys[pos + 1] = Substr(s, 0, prefix),
                          !.values[pos + 1] =
                              JRef(IF StrLess(s, key)
                                   THEN [keys |-> <<mine, theirs>>, values |-> <<JNull, value>>]
                                   ELSE [keys |-> <<theirs, mine>>, values |-> <<value, JNull>>])]
       ELSE [keys |-> InsertAt(node.keys, pos, s), values |-> InsertAt(node.values, pos, JNull)]

\* void find_all(const std::string& s, int offset, std::vector<int>& append_to):
\* append_to after the call
RECURSIVE find_all(_, _, _, _)
find_all(node, s, offset, append_to) ==
    LET out == IF node.keys # << >> /\ node.keys[1] = << >> THEN Append(append_to, offset)
               ELSE append_to
        index == LowerBound(node.keys, Substr(s, offset, 1))
    IN IF offset >= Len(s) THEN out
       ELSE IF index = Len(node.keys) THEN out
       ELSE LET key == node.keys[index + 1]
                pt == node.values[index + 1]
            IN IF Substr(s, offset, Len(key)) # key THEN out
               ELSE IF pt = JNull THEN Append(out, offset + Len(key))
               ELSE find_all(pt[1], s, offset + Len(key), out)

\* PrefixTree()
InitTrie ==
    /\ made = "PrefixTree"
    /\ FenwickNone /\ PQNew /\ HeapNew /\ UFNone /\ STNone /\ GraphNone /\ SkipNone
    /\ trie = [keys |-> << >>, values |-> << >>]
    /\ words = {}
    /\ call = Call("new", 0, 0)
    /\ ret = Ok(0)

\* the number of add calls made: every add leaves one more null value
RECURSIVE Stored(_)
Stored(node) ==
    LET count[i \in 0 .. Len(node.keys)] ==
            IF i = 0 THEN 0
            ELSE count[i - 1] + (IF node.values[i] = JNull THEN 1 ELSE Stored(node.values[i][1]))
    IN count[Len(node.keys)]

PTAdd(s) ==
    /\ Stored(trie) < MaxWords
    /\ trie' = pt_add(trie, s)
    /\ words' = words \cup {s}
    /\ call' = Call("add", s, 0)
    /\ ret' = Ok(0)
    /\ UNCHANGED <<made, notTrie>>

PTFindAll(s, offset) ==
    /\ ret' = Ok(find_all(trie, s, offset, << >>))
    /\ call' = Call("find_all", s, offset)
    /\ UNCHANGED <<made, ptVars, notTrie>>

NextTrie ==
    \/ \E s \in Strings : PTAdd(s)
    \/ \E s \in Strings : \E offset \in 0 .. Len(s) : PTFindAll(s, offset)

SpecTrie == InitTrie /\ [][NextTrie]_vars

\* the keys of every node are in order, as lower_bound needs them
RECURSIVE KeysSorted(_)
KeysSorted(node) ==
    /\ \A i \in 1 .. (Len(node.keys) - 1) : ~StrLess(node.keys[i + 1], node.keys[i])
    /\ \A i \in DOMAIN node.values : node.values[i] # JNull => KeysSorted(node.values[i][1])

TrieKeysSorted == trie # << >> => KeysSorted(trie)

\* the end positions of the stored strings that are prefixes of s[offset:]
PrefixEnds(s, offset) ==
    {offset + Len(w) : w \in {x \in words : StartsWith(SubstrFrom(s, offset), x)}}

\* C28: after any strings were added in any order, find_all(s, offset, out)
\* appends exactly the positions offset + |w| of the stored strings w that
\* are prefixes of s[offset:], each once and in increasing order.
C28_FindAllPrefixes ==
    call.op = "find_all" => ret = Ok(Ascending(PrefixEnds(call.a, call.b)))

\* C28 witness: with "1" and "12" stored (the key "1" with a child holding
\* "" and "2"), find_all("122", 0) appended 1 and 2.
C28_Witness ==
    /\ call.op = "find_all" /\ call.a = <<1, 2, 2>> /\ call.b = 0
    /\ words = {<<1>>, <<1, 2>>}
    /\ trie.keys = <<<<1>>>>
    /\ ret = Ok(<<1, 2>>)

====
